---- MODULE Spec2Model ----
(***************************************************************************)
(* A model of the TAPEDRIVE on-chain program (tapedrive-io/tape): the tape *)
(* lifecycle (Create / Write / Update / Finalize), the miner records       *)
(* (Register / Mine / Claim / Close) and the singleton Archive, Epoch and  *)
(* Block records.                                                          *)
(*                                                                         *)
(* Conventions.                                                            *)
(*  - An account is present when its address is in the DOMAIN of the       *)
(*    function that holds that kind of record; an absent account fails the *)
(*    loader (as_account / as_account_mut) with InvalidAccountOwner.       *)
(*  - A handler is an operator that returns an outcome record: err is      *)
(*    "Ok" or the error the handler returns at its first failing check,    *)
(*    and the other fields are the records as the handler left them at     *)
(*    that point.  The action commits the records only when err = "Ok":    *)
(*    the runtime discards every account change of a failed instruction.   *)
(*  - keccak is modelled as a collision-free constructor: a hash value is  *)
(*    a one-field record naming what was hashed.                           *)
(*  - TREE_HEIGHT and SEGMENT_SIZE are scaled down from 18 and 128 so that *)
(*    a tree can be filled; byte strings are sequences of small numbers.   *)
(***************************************************************************)
EXTENDS Integers, Sequences, FiniteSets, TLC

\* ------------------------------------------------------------------ bounds

\* Height of the Merkle tree (18 in consts.rs; scaled).
TREE_HEIGHT == 2

\* Bytes per segment (128 in consts.rs; scaled).
SEGMENT_SIZE == 2

\* Accepted Update operations per tape.
MaxUpdates == 1

\* ------------------------------------------------------------- identities

Authorities == {"a1", "a2"}

Names == {"n1", "n2"}

\* tape_pda(authority, name): the address is the pair it is derived from.
tape_pda(authority, name) == <<authority, name>>

TapeAddrs == {tape_pda(a, n) : a \in Authorities, n \in Names}

\* writer_pda(tape): a writer account is addressed by the tape it belongs to.
writer_pda(tape) == tape

\* TapeState
Created == 1
Writing == 2
Finalized == 3

Min(a, b) == IF a <= b THEN a ELSE b

Max(a, b) == IF a >= b THEN a ELSE b

Pow2(n) == 2 ^ n

\* ------------------------------------------------------------------ bytes

\* padded_array::<N>(input): truncate or right-pad with zeros to N bytes.
padded_array(N, input) ==
    [i \in 1..N |-> IF i <= Min(Len(input), N) THEN input[i] ELSE 0]

chunks_whole(data, size) ==
    LET count == Len(data) \div size
    IN  [k \in 1..count |->
            SubSeq(data, (k - 1) * size + 1, Min(k * size, Len(data)))]

\* slice::chunks(size): consecutive chunks of `size` bytes, the last one
\* shorter when the length is no multiple of size; none for empty data.
chunks(data, size) ==
    LET count == (Len(data) + size - 1) \div size
    IN  [k \in 1..count |->
            SubSeq(data, (k - 1) * size + 1, Min(k * size, Len(data)))]

\* A byte string of n bytes, all equal to b.
Fill(b, n) == [i \in 1..n |-> b]

\* ----------------------------------------------------------------- hashes

\* hashv(&[tape key, slot hash]): the tape's merkle seed.
SeedHash(tape, slothash) == [sd |-> <<tape, slothash>>]

\* Leaf::new(&[segment_id le bytes, segment]).
Leaf(segment_id, segment) == [lf |-> <<segment_id, segment>>]

\* Hash of two children; the pair is unordered, as the proof interface
\* (try_replace_leaf, verify) carries no leaf index.
hash_left_right(left, right) == [nd |-> {left, right}]

\* zero value of level i (0 = leaf level) for a tree keyed by seed.
RECURSIVE zero_value(_, _)
zero_value(seed, i) ==
    IF i = 0 THEN [zr |-> seed]
    ELSE hash_left_right(zero_value(seed, i - 1), zero_value(seed, i - 1))

\* ------------------------------------------------------------ Merkle tree

\* MerkleTree::new(&[seed]): an empty tree; every level holds its zero value.
MerkleTree_new(seed) ==
    [ root            |-> zero_value(seed, TREE_HEIGHT),
      filled_subtrees |-> [i \in 1..TREE_HEIGHT |-> zero_value(seed, i - 1)],
      zero_values     |-> [i \in 1..TREE_HEIGHT |-> zero_value(seed, i - 1)],
      next_index      |-> 0 ]

\* The levels of try_add_leaf: level i (0-based) hashes the running node with
\* the zero value (running node on the left, remembered in filled_subtrees)
\* or with the remembered left sibling (running node on the right).
RECURSIVE add_levels(_, _, _, _)
add_levels(tree, i, current_index, current_hash) ==
    IF i = TREE_HEIGHT THEN [tree EXCEPT !.root = current_hash]
    ELSE IF current_index % 2 = 0
         THEN add_levels(
                [tree EXCEPT !.filled_subtrees[i + 1] = current_hash],
                i + 1, current_index \div 2,
                hash_left_right(current_hash, tree.zero_values[i + 1]))
         ELSE add_levels(
                tree, i + 1, current_index \div 2,
                hash_left_right(tree.filled_subtrees[i + 1], current_hash))

\* try_add_leaf(leaf): fails when the tree holds 2^TREE_HEIGHT leaves.
try_add_leaf(tree, leaf) ==
    IF tree.next_index >= Pow2(TREE_HEIGHT)
    THEN [ok |-> FALSE, tree |-> tree]
    ELSE [ok |-> TRUE,
          tree |-> [add_levels(tree, 0, tree.next_index, leaf)
                        EXCEPT !.next_index = tree.next_index + 1]]

\* compute_path(proof, leaf): the TREE_HEIGHT + 1 nodes from the leaf up.
RECURSIVE compute_path(_, _)
compute_path(proof, leaf) ==
    IF Len(proof) = 0 THEN <<leaf>>
    ELSE LET below == compute_path(SubSeq(proof, 1, Len(proof) - 1), leaf)
         IN  Append(below,
                    hash_left_right(below[Len(below)], proof[Len(proof)]))

\* verify(root, proof, leaf).
verify(root, proof, leaf) ==
    LET path == compute_path(proof, leaf) IN path[Len(path)] = root

\* try_replace_leaf(proof, original_leaf, new_leaf): the original path must
\* end at the current root; every remembered subtree on the path is replaced.
try_replace_leaf(tree, proof, original_leaf, new_leaf) ==
    LET original_path == compute_path(proof, original_leaf)
        new_path      == compute_path(proof, new_leaf)
    IN  IF original_path[TREE_HEIGHT + 1] # tree.root
        THEN [ok |-> FALSE, tree |-> tree]
        ELSE [ok |-> TRUE,
              tree |-> [tree EXCEPT
                !.filled_subtrees =
                    [i \in 1..TREE_HEIGHT |->
                        IF original_path[i] = tree.filled_subtrees[i]
                        THEN new_path[i] ELSE tree.filled_subtrees[i]],
                !.root = new_path[TREE_HEIGHT + 1]]]

\* The node at `level` (0 = leaves) and position idx of the full tree over
\* `leaves`, unused positions holding the zero value.
RECURSIVE subtree_root(_, _, _, _)
subtree_root(seed, leaves, level, idx) ==
    IF level = 0
    THEN IF idx < Len(leaves) THEN leaves[idx + 1] ELSE zero_value(seed, 0)
    ELSE hash_left_right(subtree_root(seed, leaves, level - 1, 2 * idx),
                         subtree_root(seed, leaves, level - 1, 2 * idx + 1))

\* get_merkle_proof(leaves, index): the sibling of the path at every level.
get_merkle_proof(seed, leaves, index) ==
    [i \in 1..TREE_HEIGHT |->
        LET pos == index \div Pow2(i - 1)
            sib == IF pos % 2 = 0 THEN pos + 1 ELSE pos - 1
        IN  subtree_root(seed, leaves, i - 1, sib)]

\* ------------------------------------------------------------------ state

VARIABLES
    tapes,      \* tape address -> Tape record (present accounts only)
    writers,    \* writer address -> Writer record (present accounts only)
    archive,    \* the Archive singleton
    miners,     \* miner address -> Miner record (present accounts only)
    epoch,      \* the Epoch singleton
    block,      \* the Block singleton
    treasury,   \* token balance of the treasury's associated token account
    now,        \* Clock::get().unix_timestamp
    written,    \* history: tape address -> the canonical segments written to
                \* it, in order, each Update applied at its segment number
    updates,    \* history: tape address -> number of accepted Updates
    claimed,    \* history: miner address -> tokens its Claims transferred
    granted,    \* history: final_reward summed over the accepted Mines
    mines,      \* history: number of accepted Mines
    proved_in,  \* history: miner address -> block.number at its last accepted
                \* Mine (present accounts with such a Mine only)
    repeats,    \* history: accepted Mines after the last epoch advance whose
                \* miner had a Mine accepted before at the same block.number
    advanced_at, \* history: <<block.number at the last epoch advance>>, and
                \* <<>> before the first
    events,     \* history: tape address -> what the accepted Write, Update
                \* and Finalize transactions of the tape show to a reader of
                \* the chain, in order: the event logged and the instruction's
                \* data
    probe,      \* a function of the program under evaluation: its arguments
                \* and, once applied, its result
    indexer,    \* the archive loop of a storage node
    solver      \* the proof-of-work solver of a storage node

tapeVars  == <<tapes, writers, archive, written, updates, events>>
minerVars == <<miners, epoch, block, treasury, claimed, granted, mines>>
proofVars == <<proved_in, repeats, advanced_at>>
serviceVars == <<indexer, solver>>
vars      == <<tapes, writers, archive, miners, epoch, block, treasury, now,
               written, updates, claimed, granted, mines, proved_in, repeats,
               advanced_at, events, probe, indexer, solver>>

\* No function under evaluation.
NoProbe == [arg |-> <<>>, res |-> <<>>]

\* The archive loop and the solver of a node that was not started.
NoIndexer == [pc |-> "off"]

NoSolver == [pc |-> "off"]

\* merkle_root of a tape that was never written: [0; 32].
ZeroRoot == [zz |-> 0]

\* The result of a handler that returned Err(e) at some check: the records
\* as they are at that point.
Outcome(e, t, w, a) == [err |-> e, tapes |-> t, writers |-> w, archive |-> a]

\* f extended (or overwritten) at k.
Put(f, k, v) == [x \in (DOMAIN f) \cup {k} |-> IF x = k THEN v ELSE f[x]]

\* f without k.
Drop(f, k) == [x \in (DOMAIN f) \ {k} |-> f[x]]

\* ----------------------------------------------------------------- Create

\* process_create: allocates the Tape and the Writer at their derived
\* addresses; both accounts must be empty.
process_create(signer, name, slothash) ==
    LET tape_address   == tape_pda(signer, name)
        writer_address == writer_pda(tape_address)
        empty_seed     == SeedHash(tape_address, slothash)
    IN  IF tape_address \in DOMAIN tapes
        THEN Outcome("AccountAlreadyInitialized", tapes, writers, archive)
        ELSE IF writer_address \in DOMAIN writers
        THEN Outcome("AccountAlreadyInitialized", tapes, writers, archive)
        ELSE Outcome("Ok",
                Put(tapes, tape_address,
                    [ number         |-> 0,
                      authority      |-> signer,
                      name           |-> name,
                      state          |-> Created,
                      total_segments |-> 0,
                      total_size     |-> 0,
                      merkle_seed    |-> empty_seed,
                      merkle_root    |-> ZeroRoot ]),
                Put(writers, writer_address,
                    [ tape  |-> tape_address,
                      state |-> MerkleTree_new(empty_seed) ]),
                archive)

\* ------------------------------------------------------------------ Write

compute_leaf_unnumbered(segment_id, segment) == Leaf(0, segment)

\* compute_leaf(segment_id, segment).
compute_leaf(segment_id, segment) == Leaf(segment_id, segment)

write_segment_unchecked(tree, segment_id, segment) ==
    LET added == try_add_leaf(tree, compute_leaf(segment_id, segment))
    IN  [err  |-> "Ok",
         tree |-> added.tree]

\* write_segment(tree, segment_id, segment): a full tree is WriteFailed.
write_segment(tree, segment_id, segment) ==
    LET added == try_add_leaf(tree, compute_leaf(segment_id, segment))
    IN  [err  |-> IF added.ok THEN "Ok" ELSE "WriteFailed",
         tree |-> added.tree]

RECURSIVE write_segments_short(_, _, _, _)
write_segments_short(tree, total_segments, segments, k) ==
    IF k >= Len(segments) THEN [err |-> "Ok", tree |-> tree]
    ELSE LET canonical_segment == padded_array(SEGMENT_SIZE, segments[k])
             wrote == write_segment(tree, total_segments + (k - 1),
                                    canonical_segment)
         IN  IF wrote.err # "Ok" THEN wrote
             ELSE write_segments_short(wrote.tree, total_segments, segments,
                                       k + 1)

\* The loop of process_write over the chunks from the k-th on: each chunk is
\* padded to SEGMENT_SIZE and appended under id total_segments + (k - 1); the
\* first failure ends the loop with the tree as the earlier chunks left it.
RECURSIVE write_segments(_, _, _, _)
write_segments(tree, total_segments, segments, k) ==
    IF k > Len(segments) THEN [err |-> "Ok", tree |-> tree]
    ELSE LET canonical_segment == padded_array(SEGMENT_SIZE, segments[k])
             wrote == write_segment(tree, total_segments + (k - 1),
                                    canonical_segment)
         IN  IF wrote.err # "Ok" THEN wrote
             ELSE write_segments(wrote.tree, total_segments, segments, k + 1)

\* The state check of process_write and process_update.
is_writable_state(state) == state = Created \/ state = Writing

\* process_write; `data` is args.data, the payload after the instruction's
\* fixed prefix.
process_write(signer, tape_info, writer_info, data) ==
    IF tape_info \notin DOMAIN tapes
    THEN Outcome("InvalidAccountOwner", tapes, writers, archive)
    ELSE IF tapes[tape_info].authority # signer
    THEN Outcome("MissingRequiredSignature", tapes, writers, archive)
    ELSE IF writer_info \notin DOMAIN writers
    THEN Outcome("InvalidAccountOwner", tapes, writers, archive)
    ELSE IF writers[writer_info].tape # tape_info
    THEN Outcome("InvalidAccountData", tapes, writers, archive)
    ELSE IF tape_info # tape_pda(signer, tapes[tape_info].name)
    THEN Outcome("InvalidSeeds", tapes, writers, archive)
    ELSE IF writer_info # writer_pda(tape_info)
    THEN Outcome("InvalidSeeds", tapes, writers, archive)
    ELSE IF ~is_writable_state(tapes[tape_info].state)
    THEN Outcome("UnexpectedState", tapes, writers, archive)
    ELSE
    LET tape          == tapes[tape_info]
        segments      == chunks(data, SEGMENT_SIZE)
        segment_count == Len(segments)
        wrote         == write_segments(writers[writer_info].state,
                                        tape.total_segments, segments, 1)
        writers2      == [writers EXCEPT ![writer_info].state = wrote.tree]
    IN  IF wrote.err # "Ok"
        THEN Outcome(wrote.err, tapes, writers2, archive)
        ELSE Outcome("Ok",
                [tapes EXCEPT ![tape_info] =
                    [tape EXCEPT
                        !.total_segments = tape.total_segments + segment_count,
                        !.total_size     = tape.total_size + Len(data),
                        !.merkle_root    = wrote.tree.root,
                        !.state          = Writing]],
                writers2, archive)

\* ----------------------------------------------------------------- Update

\* process_update: replaces the leaf of segment_number by proof.
process_update(signer, tape_info, writer_info, segment_number, old_data, new_data, merkle_proof) ==
    IF tape_info \notin DOMAIN tapes
    THEN Outcome("InvalidAccountOwner", tapes, writers, archive)
    ELSE IF tapes[tape_info].authority # signer
    THEN Outcome("MissingRequiredSignature", tapes, writers, archive)
    ELSE IF writer_info \notin DOMAIN writers
    THEN Outcome("InvalidAccountOwner", tapes, writers, archive)
    ELSE IF writers[writer_info].tape # tape_info
    THEN Outcome("InvalidAccountData", tapes, writers, archive)
    ELSE IF tape_info # tape_pda(signer, tapes[tape_info].name)
    THEN Outcome("InvalidSeeds", tapes, writers, archive)
    ELSE IF writer_info # writer_pda(tape_info)
    THEN Outcome("InvalidSeeds", tapes, writers, archive)
    ELSE IF ~is_writable_state(tapes[tape_info].state)
    THEN Outcome("UnexpectedState", tapes, writers, archive)
    ELSE
    LET old_leaf == Leaf(segment_number, old_data)
        new_leaf == Leaf(segment_number, new_data)
        replaced == try_replace_leaf(writers[writer_info].state,
                                     merkle_proof, old_leaf, new_leaf)
    IN  IF ~replaced.ok
        THEN Outcome("WriteFailed", tapes, writers, archive)
        ELSE Outcome("Ok",
                [tapes EXCEPT ![tape_info].merkle_root = replaced.tree.root],
                [writers EXCEPT ![writer_info].state = replaced.tree],
                archive)

\* --------------------------------------------------------------- Finalize

\* The state check of process_finalize: a tape with no data on it cannot be
\* finalized.
is_finalizable_state_any(state) == state = Writing \/ state = Created

is_finalizable_state(state) == state = Writing

process_finalize_stale(signer, tape_info, writer_info) ==
    IF tape_info \notin DOMAIN tapes
    THEN Outcome("InvalidAccountOwner", tapes, writers, archive)
    ELSE IF tapes[tape_info].authority # signer
    THEN Outcome("MissingRequiredSignature", tapes, writers, archive)
    ELSE IF writer_info \notin DOMAIN writers
    THEN Outcome("InvalidAccountOwner", tapes, writers, archive)
    ELSE IF writers[writer_info].tape # tape_info
    THEN Outcome("InvalidAccountData", tapes, writers, archive)
    ELSE IF tape_info # tape_pda(signer, tapes[tape_info].name)
    THEN Outcome("InvalidSeeds", tapes, writers, archive)
    ELSE IF writer_info # writer_pda(tape_info)
    THEN Outcome("InvalidSeeds", tapes, writers, archive)
    ELSE IF ~is_finalizable_state(tapes[tape_info].state)
    THEN Outcome("UnexpectedState", tapes, writers, archive)
    ELSE
    LET archive2 == [archive EXCEPT !.tapes_stored = archive.tapes_stored + 1]
    IN  Outcome("Ok",
            [tapes EXCEPT ![tape_info] =
                [tapes[tape_info] EXCEPT
                    !.number      = archive.tapes_stored,
                    !.state       = Finalized,
                    !.merkle_root = writers[writer_info].state.root]],
            Drop(writers, writer_info),
            archive2)

\* process_finalize: numbers the tape, freezes its root, closes the Writer.
process_finalize(signer, tape_info, writer_info) ==
    IF tape_info \notin DOMAIN tapes
    THEN Outcome("InvalidAccountOwner", tapes, writers, archive)
    ELSE IF tapes[tape_info].authority # signer
    THEN Outcome("MissingRequiredSignature", tapes, writers, archive)
    ELSE IF writer_info \notin DOMAIN writers
    THEN Outcome("InvalidAccountOwner", tapes, writers, archive)
    ELSE IF writers[writer_info].tape # tape_info
    THEN Outcome("InvalidAccountData", tapes, writers, archive)
    ELSE IF tape_info # tape_pda(signer, tapes[tape_info].name)
    THEN Outcome("InvalidSeeds", tapes, writers, archive)
    ELSE IF writer_info # writer_pda(tape_info)
    THEN Outcome("InvalidSeeds", tapes, writers, archive)
    ELSE IF ~is_finalizable_state(tapes[tape_info].state)
    THEN Outcome("UnexpectedState", tapes, writers, archive)
    ELSE
    LET archive2 == [archive EXCEPT !.tapes_stored = archive.tapes_stored + 1]
    IN  Outcome("Ok",
            [tapes EXCEPT ![tape_info] =
                [tapes[tape_info] EXCEPT
                    !.number      = archive2.tapes_stored,
                    !.state       = Finalized,
                    !.merkle_root = writers[writer_info].state.root]],
            Drop(writers, writer_info),
            archive2)

\* ------------------------------------------------------- mining: constants

\* Token amounts are counted in a unit of which ONE_TAPE make one TAPE
\* (10^10 in consts.rs; scaled).
ONE_TAPE == 100

MAX_SUPPLY == 7000000 * ONE_TAPE

ONE_SECOND == 1

ONE_MINUTE == 60 * ONE_SECOND

BLOCK_DURATION_SECONDS == ONE_MINUTE

EPOCH_BLOCKS == 10

EPOCHS_PER_YEAR ==
    (((365 * 24 * 60) \div (BLOCK_DURATION_SECONDS \div ONE_MINUTE))
        \div EPOCH_BLOCKS)

MIN_CONSISTENCY_MULTIPLIER == 1

MAX_CONSISTENCY_MULTIPLIER == 32

REWARD_SCALE_FACTOR == 16

INITIAL_DIFFICULTY == 7

INITIAL_REWARD_RATE == ONE_TAPE

\* The least target difficulty and the least participation target: the
\* floors advance_epoch applies.
MIN_DIFFICULTY == 7

MIN_PARTICIPATION_TARGET == 1

\* Number of values of each of the two words of a challenge that the recall
\* computations read (bytes 0..8 and 8..16 of the 32-byte hash).
ChallengeSpace == 3

\* Accepted Mine operations.
MaxMines == 2

\* Latest clock value.
MaxTime == 130

\* Accepted Mine operations in the run of epochs.
MaxEpochMines == 34

\* Latest clock value in the run of epochs.
MaxEpochTime == 1200

\* ---------------------------------------------------- mining: pure helpers

miner_pda(authority, name) == <<authority, name>>

MinerAddrs == Authorities \X Names

\* A challenge is the pair of words the recall computations read.  hashv of
\* a challenge and a second input mixes the input into both words.
Word(x, y) == (2 * x + y + 1) % ChallengeSpace

ZeroChallenge == <<0, 0>>

\* compute_next_challenge(current_challenge, slot_hashes): hashv of the
\* challenge and the first slot hash.
compute_next_challenge(current_challenge, slothash) ==
    <<Word(current_challenge[1], slothash),
      Word(current_challenge[2], slothash + 1)>>

\* compute_challenge(block_challenge, miner_challenge).
compute_challenge(block_challenge, miner_challenge) ==
    <<Word(block_challenge[1], miner_challenge[1]),
      Word(block_challenge[2], miner_challenge[2])>>

\* compute_recall_tape(challenge, total_tapes).
compute_recall_tape(challenge, total_tapes) ==
    IF total_tapes = 0 THEN 1
    ELSE Max(challenge[1] % total_tapes, 1)

\* compute_recall_segment(challenge, total_segments).
compute_recall_segment(challenge, total_segments) ==
    IF total_segments = 0 THEN 0
    ELSE challenge[2] % total_segments

\* A proof-of-work solution: the challenge and the segment it was ground
\* for, and the difficulty it reached.
Solution(challenge, segment, difficulty) ==
    [challenge |-> challenge, segment |-> segment, difficulty |-> difficulty]

\* solution.is_valid(challenge, data).
is_valid(solution, challenge, data) ==
    solution.challenge = challenge /\ solution.segment = data

update_miner_multiplier_no_floor(miner, current_time, grace) ==
    LET target_time        == miner.last_proof_at + ONE_MINUTE
        liveness_threshold == target_time + grace
    IN  IF current_time > liveness_threshold
        THEN Max(miner.multiplier - 1, 0)
        ELSE Min(miner.multiplier + 1, MAX_CONSISTENCY_MULTIPLIER)

\* update_miner_multiplier: the multiplier after a solution at current_time.
update_miner_multiplier(miner, current_time, grace) ==
    LET target_time        == miner.last_proof_at + ONE_MINUTE
        liveness_threshold == target_time + grace
    IN  IF current_time > liveness_threshold
        THEN Max(Max(miner.multiplier - 1, 0), MIN_CONSISTENCY_MULTIPLIER)
        ELSE Min(miner.multiplier + 1, MAX_CONSISTENCY_MULTIPLIER)

compute_base_reward_unscaled(multiplier, base_rate, difficulty, difficulty_attempt) ==
    LET consistency_multiplier ==
            Min(Max(multiplier, MIN_CONSISTENCY_MULTIPLIER),
                MAX_CONSISTENCY_MULTIPLIER)
        difficulty_excess == difficulty_attempt - difficulty
    IN  (consistency_multiplier ^ difficulty_excess) * base_rate

\* compute_base_reward(multiplier, base_rate, difficulty, difficulty_attempt).
compute_base_reward(multiplier, base_rate, difficulty, difficulty_attempt) ==
    LET consistency_multiplier ==
            Min(Max(multiplier \div REWARD_SCALE_FACTOR,
                    MIN_CONSISTENCY_MULTIPLIER),
                MAX_CONSISTENCY_MULTIPLIER)
        difficulty_excess == difficulty_attempt - difficulty
    IN  (consistency_multiplier ^ difficulty_excess) * base_rate

\* penalize_lateness(base_reward, last_proof_at, current_time).
penalize_lateness(base_reward, last_proof_at, current_time, grace) ==
    LET target_time        == last_proof_at + ONE_MINUTE
        liveness_threshold == target_time + grace
    IN  IF current_time > liveness_threshold
        THEN LET late_seconds  == current_time - target_time
                 late_minutes  == late_seconds \div ONE_MINUTE
                 halved        == IF late_minutes > 0
                                  THEN base_reward \div Pow2(late_minutes)
                                  ELSE base_reward
                 extra_seconds == late_seconds - late_minutes * ONE_MINUTE
             IN  IF extra_seconds > 0 /\ halved > 0
                 THEN halved - (((halved \div 2) * extra_seconds)
                                    \div ONE_MINUTE)
                 ELSE halved
        ELSE base_reward

\* compute_final_reward(penalized_reward, theoretical_rewards, target_rate).
compute_final_reward(penalized_reward, theoretical_rewards, target_rate) ==
    Min(Min(penalized_reward, theoretical_rewards), target_rate)

\* A table amount given in units of 10^4 base units, in the model's unit.
TapeAmount(m) == (m * ONE_TAPE) \div 1000000

\* A u64 wider than the model's integers, as <<high, low>>: the value is
\* high * Giga + low, with low < Giga.
Giga == 10^9

Less(a, b) == a[1] < b[1] \/ (a[1] = b[1] /\ a[2] < b[2])

LessEq(a, b) == ~Less(b, a)

\* The arms `n if n < bound => rate` of get_storage_rate, in their order.
StorageTable ==
    <<
       <<<<0, 1000>>, <<0, 0>>>>,
       <<<<0, 1048576>>, <<0, 190>>>>,
       <<<<0, 2486565>>, <<0, 451>>>>,
       <<<<0, 5896576>>, <<0, 1070>>>>,
       <<<<0, 13982985>>, <<0, 2537>>>>,
       <<<<0, 33158884>>, <<0, 6017>>>>,
       <<<<0, 78632107>>, <<0, 14267>>>>,
       <<<<0, 186466111>>, <<0, 33833>>>>,
       <<<<0, 442180832>>, <<0, 80231>>>>,
       <<<<1, 48575999>>, <<0, 190259>>>>,
       <<<<2, 486565554>>, <<0, 451175>>>>,
       <<<<5, 896576174>>, <<0, 1069904>>>>,
       <<<<13, 982985692>>, <<0, 2537141>>>>,
       <<<<33, 158884597>>, <<0, 6016510>>>>,
       <<<<78, 632107044>>, <<0, 14267394>>>>,
       <<<<186, 466111066>>, <<0, 33833322>>>>,
       <<<<442, 180832779>>, <<0, 80231450>>>>,
       <<<<1048, 575999999>>, <<0, 190258752>>>>,
       <<<<2486, 565554787>>, <<0, 451174602>>>>,
       <<<<5896, 576174027>>, <<1, 69903587>>>>,
       <<<<13982, 985692520>>, <<2, 537141233>>>>,
       <<<<33158, 884597887>>, <<6, 16510008>>>>,
       <<<<78632, 107044498>>, <<14, 267393633>>>>,
       <<<<186466, 111066097>>, <<33, 833322109>>>>,
       <<<<442180, 832779129>>, <<80, 231450424>>>>,
       <<<<1048576, 0>>, <<190, 258751903>>>>
    >>

\* get_storage_rate(archive_byte_size): the rate of the first arm whose bound
\* exceeds the size, and the rate of the `_` arm when none does.
get_storage_rate_u64(archive_byte_size) ==
    LET arms == {i \in 1..Len(StorageTable) :
                    Less(archive_byte_size, StorageTable[i][1])}
    IN  IF arms = {} THEN <<0, 20>>
        ELSE StorageTable[CHOOSE i \in arms : \A k \in arms : i <= k][2]

\* get_storage_rate of a byte count the model's integers hold, as a token
\* amount of the model.
get_storage_rate(n) ==
    LET rate == get_storage_rate_u64(<<n \div Giga, n % Giga>>)
    IN  TapeAmount(rate[1] * 100000 + (rate[2] \div 10000))

\* The rows of get_inflation_rate, one per year, in units of 10^4 base units.
InflationTable ==
    << 1000000, 750000, 562500, 421875, 316406, 237304, 177978, 133483,
       100112, 75084, 56313, 42235, 31676, 23757, 17817, 13363, 10022, 7516,
       5637, 4228, 3171, 2378, 1783, 1337, 1003 >>

\* get_inflation_rate(current_epoch).
get_inflation_rate(current_epoch) ==
    LET year == current_epoch \div EPOCHS_PER_YEAR
    IN  IF year < Len(InflationTable)
        THEN TapeAmount(InflationTable[year + 1])
        ELSE 0

\* adjust_participation(epoch).
adjust_participation(e) ==
    IF e.duplicates = 0
    THEN [e EXCEPT !.target_participation = e.target_participation + 1]
    ELSE [e EXCEPT !.target_participation = Max(e.target_participation - 1, 0)]

adjust_difficulty_inclusive(e, current_time) ==
    LET elapsed_time           == current_time - e.last_epoch_at
        average_time_per_block == elapsed_time \div EPOCH_BLOCKS
    IN  IF average_time_per_block <= BLOCK_DURATION_SECONDS
        THEN [e EXCEPT !.target_difficulty = e.target_difficulty + 1]
        ELSE [e EXCEPT !.target_difficulty = Max(e.target_difficulty - 1, 0)]

\* adjust_difficulty(epoch, current_time).
adjust_difficulty(e, current_time) ==
    LET elapsed_time           == current_time - e.last_epoch_at
        average_time_per_block == elapsed_time \div EPOCH_BLOCKS
    IN  IF average_time_per_block < BLOCK_DURATION_SECONDS
        THEN [e EXCEPT !.target_difficulty = e.target_difficulty + 1]
        ELSE [e EXCEPT !.target_difficulty = Max(e.target_difficulty - 1, 0)]

advance_epoch_keeps_progress(e, current_time) ==
    LET adjusted == adjust_difficulty(adjust_participation(e), current_time)
    IN  [adjusted EXCEPT
            !.number               = adjusted.number + 1,
            !.target_difficulty    = Max(adjusted.target_difficulty, 7),
            !.target_participation = Max(adjusted.target_participation, 1),
            !.duplicates           = 0,
            !.last_epoch_at        = current_time]

\* advance_epoch(epoch, current_time).
advance_epoch(e, current_time) ==
    LET adjusted == adjust_difficulty(adjust_participation(e), current_time)
    IN  [adjusted EXCEPT
            !.number               = adjusted.number + 1,
            !.target_difficulty    = Max(adjusted.target_difficulty, 7),
            !.target_participation = Max(adjusted.target_participation, 1),
            !.progress             = 0,
            !.duplicates           = 0,
            !.last_epoch_at        = current_time]

\* ------------------------------------------------------- mining: handlers

\* The result of a miner handler: the records as they are when it returns,
\* and the reward it granted (Mine).
MinerOutcome(e, m, ep, bl, tr, reward) ==
    [err |-> e, miners |-> m, epoch |-> ep, block |-> bl, treasury |-> tr,
     reward |-> reward]

\* The values process_mine reads that no file of the repository defines:
\* spool.available_rewards, epoch.target_rate and GRACE_PERIOD_SECONDS.
Unbound(available_rewards, target_rate, grace) ==
    [available_rewards |-> available_rewards, target_rate |-> target_rate,
     grace |-> grace]

\* process_register: allocates the Miner at its derived address.
process_register(signer, name, slothash, current_time) ==
    LET miner_address  == miner_pda(signer, name)
        next_challenge == compute_next_challenge(ZeroChallenge, slothash)
    IN  IF miner_address \in DOMAIN miners
        THEN MinerOutcome("AccountAlreadyInitialized",
                          miners, epoch, block, treasury, 0)
        ELSE MinerOutcome("Ok",
                Put(miners, miner_address,
                    [ authority         |-> signer,
                      name              |-> name,
                      unclaimed_rewards |-> 0,
                      current_challenge |-> next_challenge,
                      recall_tape       |-> compute_recall_tape(
                                                next_challenge,
                                                archive.tapes_stored),
                      multiplier        |-> 0,
                      last_proof_hash   |-> ZeroRoot,
                      last_proof_at     |-> current_time,
                      total_proofs      |-> 0,
                      total_rewards     |-> 0 ]),
                epoch, block, treasury, 0)

process_close_anyone(signer, miner_info) ==
    IF miner_info \notin DOMAIN miners
    THEN MinerOutcome("InvalidAccountOwner", miners, epoch, block, treasury, 0)
    ELSE IF miners[miner_info].unclaimed_rewards # 0
    THEN MinerOutcome("InvalidAccountData", miners, epoch, block, treasury, 0)
    ELSE MinerOutcome("Ok", Drop(miners, miner_info),
                      epoch, block, treasury, 0)

process_close_unchecked(signer, miner_info) ==
    IF miner_info \notin DOMAIN miners
    THEN MinerOutcome("InvalidAccountOwner", miners, epoch, block, treasury, 0)
    ELSE IF miners[miner_info].authority # signer
    THEN MinerOutcome("MissingRequiredSignature",
                      miners, epoch, block, treasury, 0)
    ELSE MinerOutcome("Ok", Drop(miners, miner_info),
                      epoch, block, treasury, 0)

\* process_close closing the account before it looks at the unclaimed
\* rewards.
process_close_early(signer, miner_info) ==
    IF miner_info \notin DOMAIN miners
    THEN MinerOutcome("InvalidAccountOwner", miners, epoch, block, treasury, 0)
    ELSE IF miners[miner_info].authority # signer
    THEN MinerOutcome("MissingRequiredSignature",
                      miners, epoch, block, treasury, 0)
    ELSE IF miners[miner_info].unclaimed_rewards # 0
    THEN MinerOutcome("InvalidAccountData", Drop(miners, miner_info),
                      epoch, block, treasury, 0)
    ELSE MinerOutcome("Ok", Drop(miners, miner_info),
                      epoch, block, treasury, 0)

\* process_close: a miner with nothing left to claim is closed by its
\* authority.
process_close(signer, miner_info) ==
    IF miner_info \notin DOMAIN miners
    THEN MinerOutcome("InvalidAccountOwner", miners, epoch, block, treasury, 0)
    ELSE IF miners[miner_info].authority # signer
    THEN MinerOutcome("MissingRequiredSignature",
                      miners, epoch, block, treasury, 0)
    ELSE IF miners[miner_info].unclaimed_rewards # 0
    THEN MinerOutcome("InvalidAccountData", miners, epoch, block, treasury, 0)
    ELSE MinerOutcome("Ok", Drop(miners, miner_info),
                      epoch, block, treasury, 0)

process_claim_keeps(signer, miner_info, amount) ==
    IF miner_info \notin DOMAIN miners
    THEN MinerOutcome("InvalidAccountOwner", miners, epoch, block, treasury, 0)
    ELSE IF miners[miner_info].authority # signer
    THEN MinerOutcome("MissingRequiredSignature",
                      miners, epoch, block, treasury, 0)
    ELSE IF miners[miner_info].unclaimed_rewards < amount
    THEN MinerOutcome("ClaimTooLarge", miners, epoch, block, treasury, 0)
    ELSE IF treasury < amount
    THEN MinerOutcome("InsufficientFunds", miners, epoch, block, treasury, 0)
    ELSE MinerOutcome("Ok", miners, epoch, block, treasury - amount, 0)

\* process_claim: decrements unclaimed_rewards, then transfers `amount` from
\* the treasury's token account; the token program refuses a transfer of
\* more than the account holds.
process_claim(signer, miner_info, amount) ==
    IF miner_info \notin DOMAIN miners
    THEN MinerOutcome("InvalidAccountOwner", miners, epoch, block, treasury, 0)
    ELSE IF miners[miner_info].authority # signer
    THEN MinerOutcome("MissingRequiredSignature",
                      miners, epoch, block, treasury, 0)
    ELSE IF miners[miner_info].unclaimed_rewards < amount
    THEN MinerOutcome("ClaimTooLarge", miners, epoch, block, treasury, 0)
    ELSE
    LET miners2 == [miners EXCEPT ![miner_info].unclaimed_rewards = @ - amount]
    IN  IF treasury < amount
        THEN MinerOutcome("InsufficientFunds",
                          miners2, epoch, block, treasury, 0)
        ELSE MinerOutcome("Ok", miners2, epoch, block, treasury - amount, 0)

next_block_counting(b, slothash) ==
    [b EXCEPT !.challenge = compute_next_challenge(b.challenge, slothash),
              !.progress  = b.progress + 1]

\* process_mine's update of the Block record: the next block challenge.
next_block(b, slothash) ==
    [b EXCEPT !.challenge = compute_next_challenge(b.challenge, slothash)]

is_hard_enough_off_by_one(difficulty, target_difficulty) ==
    difficulty + 1 >= target_difficulty

\* process_mine's check of the solution's difficulty against the epoch's.
is_hard_enough(difficulty, target_difficulty) ==
    difficulty >= target_difficulty

recall_segment_of_first_word(miner, tape) ==
    compute_recall_segment(<<miner.current_challenge[2],
                             miner.current_challenge[1]>>,
                           tape.total_segments)

\* process_mine's segment_number: the recall segment of the miner's own
\* challenge in the tape.
recall_segment_of(miner, tape) ==
    compute_recall_segment(miner.current_challenge, tape.total_segments)

next_miner_challenge_kept(miner, slothash) == miner.current_challenge

\* process_mine's update of the miner's challenge: the next challenge after
\* its own.
next_miner_challenge(miner, slothash) ==
    compute_next_challenge(miner.current_challenge, slothash)

is_recall_tape_any(tape, recall_tape) == TRUE

\* process_mine's check of the tape account against the challenged tape.
is_recall_tape(tape, recall_tape) == tape.number = recall_tape

\* The epoch step of a Mine that leaves the inflation term out of the new
\* reward rate.
next_epoch_storage_only(e, a, current_time) ==
    IF e.progress >= EPOCH_BLOCKS
    THEN [advance_epoch(e, current_time) EXCEPT
              !.reward_rate = get_storage_rate(a.bytes_stored)]
    ELSE [e EXCEPT !.progress = @ + 1]

\* The epoch step of an accepted Mine: past EPOCH_BLOCKS of progress the
\* epoch advances and its reward rate is recomputed from the archive and the
\* new epoch number; otherwise the progress counts one more.
next_epoch(e, a, current_time) ==
    IF e.progress >= EPOCH_BLOCKS
    THEN LET advanced == advance_epoch(e, current_time)
         IN  [advanced EXCEPT
                  !.reward_rate = get_storage_rate(a.bytes_stored)
                                  + get_inflation_rate(advanced.number)]
    ELSE [e EXCEPT !.progress = @ + 1]

\* process_mine.  The handler's names that the Epoch and Miner structs do not
\* have are read as the fields they were renamed to: epoch.base_rate is
\* reward_rate, epoch.difficulty is target_difficulty, epoch.target_unique is
\* target_participation, miner.challenge is current_challenge; target_time in
\* the update of last_proof_at is last_proof_at + ONE_MINUTE, as in the
\* helpers.
process_mine(signer, miner_info, tape_info, solution, recall_segment, recall_proof, slothash, current_time, unbound) ==
    IF tape_info \notin DOMAIN tapes
    THEN MinerOutcome("InvalidAccountOwner", miners, epoch, block, treasury, 0)
    ELSE IF miner_info \notin DOMAIN miners
    THEN MinerOutcome("InvalidAccountOwner", miners, epoch, block, treasury, 0)
    ELSE IF miner_info # miner_pda(miners[miner_info].authority,
                                   miners[miner_info].name)
    THEN MinerOutcome("InvalidSeeds", miners, epoch, block, treasury, 0)
    ELSE IF signer # miners[miner_info].authority
    THEN MinerOutcome("InvalidAccountOwner", miners, epoch, block, treasury, 0)
    ELSE IF ~is_hard_enough(solution.difficulty, epoch.target_difficulty)
    THEN MinerOutcome("SolutionTooEasy", miners, epoch, block, treasury, 0)
    ELSE
    LET miner           == miners[miner_info]
        tape            == tapes[tape_info]
        miner_challenge == compute_challenge(block.challenge,
                                             miner.current_challenge)
        recall_tape     == compute_recall_tape(miner_challenge,
                                               archive.tapes_stored)
        segment_number  == recall_segment_of(miner, tape)
        leaf            == Leaf(segment_number, recall_segment)
    IN  IF ~is_recall_tape(tape, recall_tape)
        THEN MinerOutcome("SolutionInvalid", miners, epoch, block, treasury, 0)
        ELSE IF ~verify(tape.merkle_root, recall_proof, leaf)
        THEN MinerOutcome("SolutionInvalid", miners, epoch, block, treasury, 0)
        ELSE IF ~is_valid(solution, miner_challenge, recall_segment)
        THEN MinerOutcome("SolutionInvalid", miners, epoch, block, treasury, 0)
        ELSE
        LET multiplier   == update_miner_multiplier(miner, current_time,
                                                    unbound.grace)
            base_reward  == compute_base_reward(multiplier, epoch.reward_rate,
                                                epoch.target_difficulty,
                                                solution.difficulty)
            penalized_reward == penalize_lateness(base_reward,
                                                  miner.last_proof_at,
                                                  current_time, unbound.grace)
            final_reward == compute_final_reward(penalized_reward,
                                                 unbound.available_rewards,
                                                 unbound.target_rate)
            target_time  == miner.last_proof_at + ONE_MINUTE
            miner2 == [miner EXCEPT
                        !.multiplier        = multiplier,
                        !.unclaimed_rewards = @ + final_reward,
                        !.total_rewards     = @ + final_reward,
                        !.total_proofs      = @ + 1,
                        !.last_proof_at     = Max(current_time, target_time),
                        !.current_challenge =
                            next_miner_challenge(miner, slothash)]
            block2 == next_block(block, slothash)
            epoch2 == next_epoch(epoch, archive, current_time)
        IN  MinerOutcome("Ok", [miners EXCEPT ![miner_info] = miner2],
                         epoch2, block2, treasury, final_reward)

\* ---------------------------------------------------------------- actions

NoTarget == <<"", "">>

Empty == [x \in {} |-> 0]

\* The challenge of the Block record when mining starts.
GenesisChallenge == <<1, 1>>

\* What the treasury's token account holds when the program starts:
\* process_initialize creates the account and mints nothing into it; the
\* integration test expects the whole supply to exist after Initialize.
TreasuryFunding == {0, MAX_SUPPLY}

Initialized ==
    /\ tapes = Empty
    /\ writers = Empty
    /\ archive = [tapes_stored |-> 0, bytes_stored |-> 0]
    /\ miners = Empty
    /\ epoch = [ number               |-> 0,
                 progress             |-> 0,
                 target_difficulty    |-> INITIAL_DIFFICULTY,
                 target_participation |-> 0,
                 reward_rate          |-> INITIAL_REWARD_RATE,
                 duplicates           |-> 0,
                 last_epoch_at        |-> 0 ]
    /\ block = [ number        |-> 0,
                 progress      |-> 0,
                 challenge     |-> GenesisChallenge,
                 challenge_set |-> 0,
                 last_proof_at |-> 0,
                 last_block_at |-> 0 ]
    /\ treasury \in TreasuryFunding
    /\ now = 0
    /\ written = Empty
    /\ updates = Empty
    /\ claimed = Empty
    /\ granted = 0
    /\ mines = 0
    /\ proved_in = Empty
    /\ repeats = 0
    /\ advanced_at = <<>>
    /\ events = Empty

\* No storage node runs.
NoServices == indexer = NoIndexer /\ solver = NoSolver

Init == Initialized /\ probe = NoProbe /\ NoServices

\* The accounts after an instruction: the runtime keeps the account changes
\* of an instruction only when the handler returned Ok, and discards them
\* otherwise.
Committed(out) ==
    IF out.err = "Ok" THEN <<out.tapes, out.writers, out.archive>>
    ELSE <<tapes, writers, archive>>

Commit(out) ==
    /\ tapes'   = Committed(out)[1]
    /\ writers' = Committed(out)[2]
    /\ archive' = Committed(out)[3]

\* The canonical segments of a Write payload.
CanonicalSegments(data) ==
    LET segments == chunks(data, SEGMENT_SIZE)
    IN  [k \in 1..Len(segments) |-> padded_array(SEGMENT_SIZE, segments[k])]

\* What a reader of the chain finds in an accepted transaction: the event
\* the handler logged and the data of the instruction.
TapeEvent(kind, num_added, num_total, segment_number, tape, data) ==
    [kind |-> kind, num_added |-> num_added, num_total |-> num_total,
     segment_number |-> segment_number, tape |-> tape, data |-> data]

\* process_write's WriteEvent, with args.data.
WriteEvent(num_added, num_total, data) ==
    TapeEvent("WRITE", num_added, num_total, 0, 0, data)

\* process_update's UpdateEvent, with args.new_data.
UpdateEvent(segment_number, new_data) ==
    TapeEvent("UPDATE", 0, 0, segment_number, 0, new_data)

\* process_finalize's FinalizeEvent.
FinalizeEvent(tape) == TapeEvent("FINALIZE", 0, 0, 0, tape, <<>>)

\* The Writes of no data a tape's history holds.
EmptyWrites(t) ==
    Cardinality({i \in 1..Len(events[t]) :
                    events[t][i].kind = "WRITE" /\ events[t][i].num_added = 0})

\* The history keeps at most this many Writes of no data per tape.
MaxEmptyWrites == 1

\* An accepted instruction is a step; a rejected one changes nothing and is
\* a stuttering step.

Create(signer, name, slothash) ==
    LET out == process_create(signer, name, slothash)
        t   == tape_pda(signer, name)
    IN  /\ out.err = "Ok"
        /\ Commit(out)
        /\ written' = Put(written, t, <<>>)
        /\ updates' = Put(updates, t, 0)
        /\ events' = Put(events, t, <<>>)
        /\ UNCHANGED <<minerVars, proofVars, now, probe, serviceVars>>

Write(signer, tape_info, writer_info, data) ==
    LET out == process_write(signer, tape_info, writer_info, data)
    IN  /\ out.err = "Ok"
        /\ Len(data) = 0 => EmptyWrites(tape_info) < MaxEmptyWrites
        /\ Commit(out)
        /\ written' = [written EXCEPT ![tape_info] =
                            written[tape_info] \o CanonicalSegments(data)]
        /\ events' = [events EXCEPT ![tape_info] =
                Append(@, WriteEvent(out.tapes[tape_info].total_segments
                                        - tapes[tape_info].total_segments,
                                     out.tapes[tape_info].total_segments,
                                     data))]
        /\ UNCHANGED <<updates, minerVars, proofVars, now, probe, serviceVars>>

Update(signer, tape_info, writer_info, segment_number, old_data, new_data, merkle_proof) ==
    LET out == process_update(signer, tape_info, writer_info, segment_number,
                              old_data, new_data, merkle_proof)
    IN  /\ out.err = "Ok"
        /\ updates[tape_info] < MaxUpdates
        /\ Commit(out)
        /\ written' = IF segment_number < Len(written[tape_info])
                      THEN [written EXCEPT
                                ![tape_info][segment_number + 1] = new_data]
                      ELSE written
        /\ updates' = [updates EXCEPT ![tape_info] = @ + 1]
        /\ events' = [events EXCEPT ![tape_info] =
                Append(@, UpdateEvent(segment_number, new_data))]
        /\ UNCHANGED <<minerVars, proofVars, now, probe, serviceVars>>

Finalize(signer, tape_info, writer_info) ==
    LET out == process_finalize(signer, tape_info, writer_info)
    IN  /\ out.err = "Ok"
        /\ Commit(out)
        /\ events' = [events EXCEPT ![tape_info] =
                Append(@, FinalizeEvent(out.tapes[tape_info].number))]
        /\ UNCHANGED <<written, updates, minerVars, proofVars, now, probe, serviceVars>>

\* The miner-side accounts after an instruction.
CommittedM(out) ==
    IF out.err = "Ok"
    THEN <<out.miners, out.epoch, out.block, out.treasury>>
    ELSE <<miners, epoch, block, treasury>>

CommitM(out) ==
    /\ miners'   = CommittedM(out)[1]
    /\ epoch'    = CommittedM(out)[2]
    /\ block'    = CommittedM(out)[3]
    /\ treasury' = CommittedM(out)[4]

Register(signer, name, slothash) ==
    LET out == process_register(signer, name, slothash, now)
        m   == miner_pda(signer, name)
    IN  /\ out.err = "Ok"
        /\ CommitM(out)
        /\ claimed' = IF m \in DOMAIN claimed THEN claimed
                      ELSE Put(claimed, m, 0)
        /\ UNCHANGED <<tapeVars, granted, mines, proofVars, now, probe, serviceVars>>

\* An accepted Mine, while fewer than `limit` were accepted.
MineUpTo(limit, signer, miner_info, tape_info, solution, recall_segment, recall_proof, slothash, unbound) ==
    LET out == process_mine(signer, miner_info, tape_info, solution,
                            recall_segment, recall_proof, slothash, now,
                            unbound)
    IN  /\ out.err = "Ok"
        /\ mines < limit
        /\ CommitM(out)
        /\ granted' = granted + out.reward
        /\ mines' = mines + 1
        /\ proved_in' = Put(proved_in, miner_info, block.number)
        /\ repeats' = IF out.epoch.number # epoch.number THEN 0
                      ELSE IF /\ miner_info \in DOMAIN proved_in
                              /\ proved_in[miner_info] = block.number
                      THEN repeats + 1
                      ELSE repeats
        /\ advanced_at' = IF out.epoch.number # epoch.number
                          THEN <<out.block.number>> ELSE advanced_at
        /\ UNCHANGED <<tapeVars, claimed, now, probe, serviceVars>>

Mine(signer, miner_info, tape_info, solution, recall_segment, recall_proof, slothash, unbound) ==
    MineUpTo(MaxMines, signer, miner_info, tape_info, solution,
             recall_segment, recall_proof, slothash, unbound)

Claim(signer, miner_info, amount) ==
    LET out == process_claim(signer, miner_info, amount)
    IN  /\ out.err = "Ok"
        /\ CommitM(out)
        /\ claimed' = [claimed EXCEPT ![miner_info] = @ + amount]
        /\ UNCHANGED <<tapeVars, granted, mines, proofVars, now, probe, serviceVars>>

Close(signer, miner_info) ==
    LET out == process_close(signer, miner_info)
    IN  /\ out.err = "Ok"
        /\ CommitM(out)
        /\ proved_in' = Drop(proved_in, miner_info)
        /\ UNCHANGED <<tapeVars, claimed, granted, mines, repeats,
                       advanced_at, now, probe, serviceVars>>

\* The clock advances between instructions.
TickUpTo(limit, d) ==
    /\ now + d <= limit
    /\ now' = now + d
    /\ UNCHANGED <<tapeVars, minerVars, proofVars, probe, serviceVars>>

Tick(d) == TickUpTo(MaxTime, d)

\* ----------------------------------------------------------------- inputs

SlotHashes == {"s1"}

\* Write payloads: empty, one full segment, one full and one partial.
WriteData == {Fill(1, n) : n \in {0, SEGMENT_SIZE, SEGMENT_SIZE + 1}}

\* The leaves of a tape's segments as a client holding the data computes them.
LeavesOf(t) == [i \in 1..Len(written[t]) |-> compute_leaf(i - 1, written[t][i])]

\* The proof of position j in the tree a client rebuilt from the data.
ProofFor(t, j) == get_merkle_proof(tapes[t].merkle_seed, LeavesOf(t), j)

\* A proof that proves nothing.
NoProof == [i \in 1..TREE_HEIGHT |-> ZeroRoot]

\* A segment content no Write or Update of the model produces.
NoData == Fill(3, SEGMENT_SIZE)

UpdateArgs(sn, old, proof) == [sn |-> sn, old |-> old, proof |-> proof]

\* Update arguments a client can submit for a tape: for each segment j the
\* honest ones, and the ones wrong in the segment number, in the old data, or
\* in the proof (that of a neighbouring position); and arguments naming a
\* segment that was never written.
UpdateInputs(t) ==
    IF t \notin DOMAIN written THEN {UpdateArgs(0, NoData, NoProof)}
    ELSE LET n == Len(written[t])
             cap == Pow2(TREE_HEIGHT)
         IN  {UpdateArgs(j, written[t][j + 1], ProofFor(t, j)) : j \in 0..(n - 1)}
             \cup {UpdateArgs(j + 1, written[t][j + 1], ProofFor(t, j)) : j \in 0..(n - 1)}
             \cup {UpdateArgs(j, NoData, ProofFor(t, j)) : j \in 0..(n - 1)}
             \cup {UpdateArgs(j, written[t][j + 1], ProofFor(t, (j + 1) % cap)) : j \in 0..(n - 1)}
             \cup {UpdateArgs(n, NoData, NoProof)}

NewData == {Fill(1, SEGMENT_SIZE), Fill(2, SEGMENT_SIZE)}

\* One authority creates one tape and fills it; anyone may submit.
NextTape ==
    \/ \E sh \in SlotHashes : Create("a1", "n1", sh)
    \/ \E signer \in Authorities, t \in {<<"a1", "n1">>, <<"a2", "n1">>},
          data \in WriteData :
        \E w \in {t, <<"a2", "n1">>} :
            Write(signer, t, w, data)
    \/ \E signer \in Authorities, t \in {<<"a1", "n1">>, <<"a2", "n1">>},
          new \in NewData :
        \E u \in UpdateInputs(t) :
            Update(signer, t, t, u.sn, u.old, new, u.proof)
    \/ \E signer \in Authorities, t \in {<<"a1", "n1">>, <<"a2", "n1">>} :
            Finalize(signer, t, t)

SpecTape == Init /\ [][NextTape]_vars

\* ---------------------------------------------------- the whole program

\* One Write payload: it takes more than half of a tree, the last segment
\* partial.
SimpleData == {Fill(1, SEGMENT_SIZE * Pow2(TREE_HEIGHT - 1) + 1)}

Difficulties == {INITIAL_DIFFICULTY - 1, INITIAL_DIFFICULTY}

\* The values a Mine may find in what the repository leaves undefined.
Unbounds == {Unbound(MAX_SUPPLY, MAX_SUPPLY, 0)}

MineArgs(solution, segment, proof) ==
    [solution |-> solution, segment |-> segment, proof |-> proof]

\* Mine arguments a miner can submit for tape t.  For a finalized tape, whose
\* data the miner holds: for every segment j a solution ground for the
\* block-and-miner challenge and that segment, with its proof, and one
\* ground for the miner's own challenge.  For any other tape, a solution
\* with no data behind it.
MineInputs(m, t) ==
    IF m \notin DOMAIN miners \/ t \notin DOMAIN tapes
    THEN {MineArgs(Solution(ZeroChallenge, NoData, INITIAL_DIFFICULTY),
                   NoData, NoProof)}
    ELSE IF tapes[t].state # Finalized
    THEN {MineArgs(Solution(compute_challenge(block.challenge,
                                              miners[m].current_challenge),
                            NoData, INITIAL_DIFFICULTY),
                   NoData, NoProof)}
    ELSE LET mc == compute_challenge(block.challenge,
                                     miners[m].current_challenge)
             n  == Len(written[t])
         IN  {MineArgs(Solution(mc, written[t][j + 1], d),
                       written[t][j + 1], ProofFor(t, j)) :
                    j \in 0..(n - 1), d \in Difficulties}
             \cup {MineArgs(Solution(miners[m].current_challenge,
                                     written[t][j + 1], INITIAL_DIFFICULTY),
                            written[t][j + 1], ProofFor(t, j)) :
                    j \in 0..(n - 1)}

\* Every challenge the recall computations can tell apart.
Challenges == (0..(ChallengeSpace - 1)) \X (0..(ChallengeSpace - 1))

\* Mine arguments for tape t ground for any challenge whatever: for every
\* segment of the tape and every challenge, a solution for that challenge and
\* segment with the segment's proof.
AnyMineInputs(t) ==
    IF t \notin DOMAIN written
    THEN {MineArgs(Solution(ZeroChallenge, NoData, INITIAL_DIFFICULTY),
                   NoData, NoProof)}
    ELSE {MineArgs(Solution(c, written[t][j + 1], d),
                   written[t][j + 1], ProofFor(t, j)) :
                j \in 0..(Len(written[t]) - 1), c \in Challenges,
                d \in Difficulties}
         \cup {MineArgs(Solution(ZeroChallenge, NoData, INITIAL_DIFFICULTY),
                        NoData, NoProof)}

\* Mine arguments whose solution is one below the epoch's target difficulty:
\* the arguments above, right or wrong in tape, segment, proof and
\* challenge, with the difficulty lowered.
LowMineInputs(m, t) ==
    {[i EXCEPT !.solution.difficulty = epoch.target_difficulty - 1] :
        i \in MineInputs(m, t) \cup AnyMineInputs(t)}

\* Claim amounts: everything, and one more than everything.
ClaimAmounts(m) ==
    IF m \notin DOMAIN miners THEN {0}
    ELSE {miners[m].unclaimed_rewards, miners[m].unclaimed_rewards + 1}

\* Update arguments for the first segment of a tape: the honest ones, and
\* ones with a proof that proves nothing.
FirstSegmentUpdates(t) ==
    IF t \notin DOMAIN written \/ Len(written[t]) = 0
    THEN {UpdateArgs(0, NoData, NoProof)}
    ELSE {UpdateArgs(0, written[t][1], ProofFor(t, 0)),
          UpdateArgs(0, written[t][1], NoProof)}

TheTapes == {<<"a1", "n1">>, <<"a2", "n1">>}

TheMiners == {<<"a1", "n1">>, <<"a2", "n1">>}

Next ==
    \/ \E signer \in Authorities, sh \in SlotHashes :
            Create(signer, "n1", sh)
    \/ \E signer \in Authorities, t \in TheTapes, data \in SimpleData :
            Write(signer, t, t, data)
    \/ \E signer \in Authorities, t \in TheTapes :
        \E u \in FirstSegmentUpdates(t) :
            Update(signer, t, t, u.sn, u.old, Fill(2, SEGMENT_SIZE), u.proof)
    \/ \E signer \in Authorities, t \in TheTapes :
            Finalize(signer, t, t)
    \/ \E signer \in Authorities :
            Register(signer, "n1", 1)
    \/ \E signer \in Authorities, m \in TheMiners, t \in TheTapes,
          unbound \in Unbounds :
        \E i \in MineInputs(m, t) :
            Mine(signer, m, t, i.solution, i.segment, i.proof, 1, unbound)
    \/ \E signer \in Authorities, m \in TheMiners :
        \E amount \in ClaimAmounts(m) :
            Claim(signer, m, amount)
    \/ \E signer \in Authorities, m \in TheMiners :
            Close(signer, m)
    \/ Tick(MaxTime)

Spec == Init /\ [][Next]_vars

\* ------------------------------------------------------ a run of epochs

\* The Mine arguments of a miner that holds the tape's data: the segment the
\* handler will ask for, its proof, and a solution for the block-and-miner
\* challenge and that segment, at the epoch's difficulty or one above.
HonestMineInputs(m, t) ==
    IF m \notin DOMAIN miners \/ t \notin DOMAIN tapes
       \/ tapes[t].state # Finalized
    THEN {}
    ELSE LET mc == compute_challenge(block.challenge,
                                     miners[m].current_challenge)
             sn == recall_segment_of(miners[m], tapes[t])
         IN  {MineArgs(Solution(mc, written[t][sn + 1], d),
                       written[t][sn + 1], ProofFor(t, sn)) :
                d \in {epoch.target_difficulty, epoch.target_difficulty + 1}}

\* The clock step of the run of epochs: the time EPOCH_BLOCKS blocks are
\* meant to take.
EpochTick == EPOCH_BLOCKS * BLOCK_DURATION_SECONDS

\* One authority stores one tape and registers one miner, which then mines
\* through several epochs, quickly or slowly.
NextEpoch ==
    \/ \E sh \in SlotHashes : Create("a1", "n1", sh)
    \/ \E data \in SimpleData :
            Write("a1", <<"a1", "n1">>, <<"a1", "n1">>, data)
    \/ Finalize("a1", <<"a1", "n1">>, <<"a1", "n1">>)
    \/ Register("a1", "n1", 1)
    \/ \E unbound \in Unbounds :
        \E i \in HonestMineInputs(<<"a1", "n1">>, <<"a1", "n1">>) :
            MineUpTo(MaxEpochMines, "a1", <<"a1", "n1">>, <<"a1", "n1">>,
                     i.solution, i.segment, i.proof, 1, unbound)
    \/ TickUpTo(MaxEpochTime, EpochTick)

SpecEpoch == Init /\ [][NextEpoch]_vars

\* --------------------------------------------------- the storage rate curve

\* The byte count before w.
Pred(w) == IF w[2] > 0 THEN <<w[1], w[2] - 1>> ELSE <<w[1] - 1, Giga - 1>>

\* 1 PiB, 2^50 bytes.
PiB == <<1125899, 906842624>>

\* Archive sizes: none, each bound of the table and the size just below it,
\* 1 PiB and a size above it.
ByteCounts ==
    {<<0, 0>>, PiB, <<2000000, 0>>}
    \cup {StorageTable[i][1] : i \in 1..Len(StorageTable)}
    \cup {Pred(StorageTable[i][1]) : i \in 1..Len(StorageTable)}

\* Two archive sizes whose rates are to be compared.
InitCurve ==
    /\ Initialized
    /\ NoServices
    /\ probe \in {[arg |-> <<a, b>>, res |-> <<>>] : a, b \in ByteCounts}

\* The rates of the two sizes.
StorageRates ==
    /\ probe.arg # <<>>
    /\ probe.res = <<>>
    /\ probe' = [probe EXCEPT !.res = <<get_storage_rate_u64(probe.arg[1]),
                                        get_storage_rate_u64(probe.arg[2])>>]
    /\ UNCHANGED <<tapeVars, minerVars, proofVars, now, serviceVars>>

NextCurve == StorageRates

SpecCurve == InitCurve /\ [][NextCurve]_vars

\* ------------------------------------------------------ the counter updates

\* A u64 at its full width, as four 16-bit limbs, the lowest first.
Limb == 2^16

U64(n) == <<n % Limb, n \div Limb, 0, 0>>

U64_MAX == <<Limb - 1, Limb - 1, Limb - 1, Limb - 1>>

\* a + b over the four limbs, with the carry out of the highest.
carrying_add(a, b) ==
    LET s1 == a[1] + b[1]
        s2 == a[2] + b[2] + (s1 \div Limb)
        s3 == a[3] + b[3] + (s2 \div Limb)
        s4 == a[4] + b[4] + (s3 \div Limb)
    IN  [ value |-> <<s1 % Limb, s2 % Limb, s3 % Limb, s4 % Limb>>,
          carry |-> s4 \div Limb ]

\* u64::saturating_add.
saturating_add(a, b) ==
    LET sum == carrying_add(a, b)
    IN  IF sum.carry > 0 THEN U64_MAX ELSE sum.value

\* What `a += b` on a u64 can leave: the sum when it fits; past the maximum,
\* the sum modulo 2^64 in a build without overflow checks and a panic, which
\* aborts the instruction and leaves the counter as it was, in a build with
\* them.
add_assign(a, b) ==
    LET sum == carrying_add(a, b)
    IN  IF sum.carry = 0 THEN {[err |-> "Ok", value |-> sum.value]}
        ELSE {[err |-> "Ok", value |-> sum.value],
              [err |-> "Panic", value |-> a]}

\* The counters the handlers update with `+=`, and those they update with
\* saturating_add.
AddAssigned ==
    {"miner.unclaimed_rewards", "miner.total_rewards", "miner.total_proofs",
     "tape.total_segments", "tape.total_size", "archive.tapes_stored"}

SaturatingAdded == {"epoch.number", "epoch.progress"}

\* The counters that only ever grow by 1.
CountsByOne ==
    {"miner.total_proofs", "archive.tapes_stored", "epoch.number",
     "epoch.progress"}

\* Counter values: small ones, and those within reach of the maximum.
CounterValues ==
    {U64(0), U64(1), U64(Limb), <<0, 0, 0, Limb \div 2>>,
     <<Limb - 3, Limb - 1, Limb - 1, Limb - 1>>,
     <<Limb - 2, Limb - 1, Limb - 1, Limb - 1>>, U64_MAX}

Increments(counter) ==
    IF counter \in CountsByOne THEN {U64(1)}
    ELSE {U64(0), U64(1), U64(2), U64(Limb), U64_MAX}

\* A counter, its value and the amount an instruction adds to it.
InitCounters ==
    /\ Initialized
    /\ NoServices
    /\ probe \in {[arg |-> <<counter, a, b>>, res |-> <<>>] :
                    counter \in AddAssigned \cup SaturatingAdded,
                    a \in CounterValues, b \in Increments("tape.total_size")}
    /\ probe.arg[3] \in Increments(probe.arg[1])

\* The update of a counter written `+=`.
AddAssign ==
    /\ probe.arg # <<>>
    /\ probe.res = <<>>
    /\ probe.arg[1] \in AddAssigned
    /\ \E out \in add_assign(probe.arg[2], probe.arg[3]) :
          probe' = [probe EXCEPT !.res = <<out>>]
    /\ UNCHANGED <<tapeVars, minerVars, proofVars, now, serviceVars>>

\* The update of a counter written with saturating_add.
SaturatingAdd ==
    /\ probe.arg # <<>>
    /\ probe.res = <<>>
    /\ probe.arg[1] \in SaturatingAdded
    /\ probe' = [probe EXCEPT !.res =
                    <<[err   |-> "Ok",
                       value |-> saturating_add(probe.arg[2], probe.arg[3])]>>]
    /\ UNCHANGED <<tapeVars, minerVars, proofVars, now, serviceVars>>

NextCounters == AddAssign \/ SaturatingAdd

SpecCounters == InitCounters /\ [][NextCounters]_vars

\* ------------------------------------------------------------------------
\* The recall tape, as a function of the challenge and the number of tapes.

\* The largest number of finalized tapes considered.
MaxRecallTapes == 6

\* The largest value of the challenge's first eight bytes considered.
MaxRecallWord == 13

\* Challenges by their first and second eight bytes.
RecallChallenges == (0..MaxRecallWord) \X (0..1)

InitRecall ==
    /\ Initialized
    /\ NoServices
    /\ probe \in {[arg |-> <<challenge, total_tapes>>, res |-> <<>>] :
                    challenge \in RecallChallenges,
                    total_tapes \in 0..MaxRecallTapes}

\* compute_recall_tape applied to the challenge and the number of tapes.
RecallTape ==
    /\ probe.arg # <<>>
    /\ probe.res = <<>>
    /\ probe' = [probe EXCEPT !.res =
                    <<compute_recall_tape(probe.arg[1], probe.arg[2])>>]
    /\ UNCHANGED <<tapeVars, minerVars, proofVars, now, serviceVars>>

NextRecall == RecallTape

SpecRecall == InitRecall /\ [][NextRecall]_vars

\* ------------------------------------------------------------------------
\* Mining over tapes of any content, the empty one included.

\* Write payloads: nothing at all, or the payload of the whole program.
AnyData == {Fill(1, 0)} \cup SimpleData

\* Every content a segment of the recall argument can have.
AnySegments == [1..SEGMENT_SIZE -> 0..3]

\* Every Mine argument a miner holding the data of tape t can put together:
\* any segment content, with the proof of any position of the tree rebuilt
\* from the tape's data or with no proof, and a solution ground for the
\* block-and-miner challenge and that content at the epoch's difficulty.
HolderMineInputs(m, t) ==
    IF m \notin DOMAIN miners \/ t \notin DOMAIN tapes THEN {}
    ELSE LET mc == compute_challenge(block.challenge,
                                     miners[m].current_challenge)
         IN  {MineArgs(Solution(mc, segment, epoch.target_difficulty),
                       segment, proof) :
                segment \in AnySegments,
                proof \in {ProofFor(t, j) :
                              j \in 0..(Pow2(TREE_HEIGHT) - 1)}
                          \cup {NoProof}}

\* Two authorities store tapes, empty or not, and mine on them.
NextMining ==
    \/ \E signer \in Authorities, sh \in SlotHashes :
            Create(signer, "n1", sh)
    \/ \E signer \in Authorities, t \in TheTapes, data \in AnyData :
            Write(signer, t, t, data)
    \/ \E signer \in Authorities, t \in TheTapes :
            Finalize(signer, t, t)
    \/ Register("a1", "n1", 1)
    \/ \E t \in TheTapes, unbound \in Unbounds :
        \E i \in MineInputs(<<"a1", "n1">>, t) :
            Mine("a1", <<"a1", "n1">>, t, i.solution, i.segment, i.proof, 1,
                 unbound)

SpecMining == Init /\ [][NextMining]_vars

\* ------------------------------------------------------------------------
\* The segments a storage node keeps of a tape, built from the tape's
\* transactions.

\* TapeStore::add_segment for one tape: the data is kept under the segment
\* number, replacing what was there; data longer than a segment is refused.
add_segment(segments, segment_number, data) ==
    IF Len(data) > SEGMENT_SIZE
    THEN [err |-> "SegmentSizeExceeded", segments |-> segments]
    ELSE [err |-> "Ok", segments |-> Put(segments, segment_number, data)]

RECURSIVE add_segments(_, _, _, _)
add_segments(segments, base, pieces, i) ==
    IF i > Len(pieces) THEN [err |-> "Ok", segments |-> segments]
    ELSE LET added == add_segment(segments, base + (i - 1), pieces[i])
         IN  IF added.err # "Ok" THEN added
             ELSE add_segments(added.segments, base, pieces, i + 1)

merge_write_from_zero(write_event, segments) ==
    LET pieces == chunks(write_event.data, SEGMENT_SIZE)
    IN  IF Len(pieces) # write_event.num_added
        THEN [err |-> "InvalidData", segments |-> segments]
        ELSE add_segments(segments, 0, pieces, 1)

\* merge_write, and archive_block for what it merged: the instruction's data
\* is cut into chunks, which must be as many as the event's num_added, and
\* the chunks are stored as they are from number num_total - num_added on.
merge_write(write_event, segments) ==
    LET base   == Max(write_event.num_total - write_event.num_added, 0)
        pieces == chunks(write_event.data, SEGMENT_SIZE)
    IN  IF Len(pieces) # write_event.num_added
        THEN [err |-> "InvalidData", segments |-> segments]
        ELSE add_segments(segments, base, pieces, 1)

\* merge_update, and archive_block for what it merged: the new data is
\* stored under the event's segment number.
merge_update(update_event, segments) ==
    add_segment(segments, update_event.segment_number, update_event.data)

\* The segments kept after the transactions of `log` from the i-th on, of
\* the kinds in `kinds`, were archived in order.  The node merges a block's
\* transactions under the key (address, segment number, prev_slot) before it
\* stores them; prev_slot is read from the events, and the events the
\* program logs carry no such field, so the model takes it to be the same
\* for the events of one segment in a block: the later data replaces the
\* earlier, as merge_update says it does.
RECURSIVE archived_from(_, _, _, _)
archived_from(log, kinds, segments, i) ==
    IF i > Len(log) THEN [err |-> "Ok", segments |-> segments]
    ELSE LET merged ==
                IF log[i].kind \notin kinds
                THEN [err |-> "Ok", segments |-> segments]
                ELSE IF log[i].kind = "WRITE"
                THEN merge_write(log[i], segments)
                ELSE IF log[i].kind = "UPDATE"
                THEN merge_update(log[i], segments)
                ELSE [err |-> "Ok", segments |-> segments]
         IN  IF merged.err # "Ok" THEN merged
             ELSE archived_from(log, kinds, merged.segments, i + 1)

\* The store of a node that archived the tape's transactions of those kinds.
archived(t, kinds) == archived_from(events[t], kinds, Empty, 1)

\* The tape number the node learnt from the FINALIZE event: merge_finalize.
archived_number(t) ==
    LET finalizes == {i \in 1..Len(events[t]) : events[t][i].kind = "FINALIZE"}
    IN  IF finalizes = {} THEN 0
        ELSE events[t][CHOOSE i \in finalizes : TRUE].tape

\* TapeStore::get_tape_segments: the stored segments by ascending number.
RECURSIVE get_tape_segments(_)
get_tape_segments(segments) ==
    IF DOMAIN segments = {} THEN <<>>
    ELSE LET last == CHOOSE k \in DOMAIN segments :
                        \A j \in DOMAIN segments : j <= k
         IN  Append(get_tape_segments(Drop(segments, last)),
                    <<last, segments[last]>>)

\* The tree compute_challenge_solution rebuilds from the stored segments:
\* every segment padded to SEGMENT_SIZE, its leaf computed under its number
\* and appended.
RECURSIVE rebuilt_from(_, _, _)
rebuilt_from(tree, stored, i) ==
    IF i > Len(stored) THEN [ok |-> TRUE, tree |-> tree]
    ELSE LET data  == padded_array(SEGMENT_SIZE, stored[i][2])
             added == try_add_leaf(tree, compute_leaf(stored[i][1], data))
         IN  IF ~added.ok THEN added
             ELSE rebuilt_from(added.tree, stored, i + 1)

\* The root of the tree rebuilt from a store for a tape.
rebuilt_root(tape, segments) ==
    rebuilt_from(MerkleTree_new(tape.merkle_seed),
                 get_tape_segments(segments), 1).tree.root

\* ------------------------------------------------------------------------
\* The archive loop of a storage node, beside a chain that grows.

\* The last slot the chain reaches.
MaxSlot == 5

\* The limit of get_blocks_with_limit (100 in the loop).
BatchLimit == 2

\* The slots in `from`..`to` that hold a block, ascending, `limit` at most:
\* what get_blocks_with_limit returns.
RECURSIVE blocks_with_limit(_, _, _, _)
blocks_with_limit(chain, from, to, limit) ==
    IF from > to \/ limit = 0 THEN <<>>
    ELSE IF from \in chain
    THEN <<from>> \o blocks_with_limit(chain, from + 1, to, limit - 1)
    ELSE blocks_with_limit(chain, from + 1, to, limit)

processed_slot_always(last_processed_slot, slot, ok) == slot

\* last_processed_slot after the loop body for `slot`: the slot when its
\* block was fetched, processed and archived, and what it was when one of
\* the three failed and `?` left the iteration.
processed_slot(last_processed_slot, slot, ok) ==
    IF ok THEN slot ELSE last_processed_slot

\* archive_loop up to its loop, with no trusted peer and an empty store:
\* last_processed_slot is the starting slot if one is given and the chain's
\* tip otherwise.
Indexer(tip, chain, starting_slot) ==
    [ pc                  |-> "sleep",
      tip                 |-> tip,
      chain               |-> chain,
      latest_slot         |-> starting_slot,
      last_processed_slot |-> starting_slot,
      first_slot          |-> starting_slot,
      iteration_count     |-> 0,
      slots               |-> <<>>,
      stored              |-> <<>>,
      failed_at           |-> {} ]

InitArchive ==
    /\ Initialized
    /\ probe = NoProbe
    /\ solver = NoSolver
    /\ \E tip \in 0..1 : \E starting_slot \in {0, tip} :
            indexer = Indexer(tip, 1..tip, starting_slot)

ArchiveUnchanged ==
    UNCHANGED <<tapeVars, minerVars, proofVars, now, probe, solver>>

\* The chain reaches its next slot, with a block in it or without.
NextSlot ==
    /\ indexer.tip < MaxSlot
    /\ \E produced \in BOOLEAN :
          indexer' = [indexer EXCEPT
                        !.tip   = @ + 1,
                        !.chain = IF produced THEN @ \cup {indexer.tip + 1}
                                  ELSE @]
    /\ ArchiveUnchanged

\* try_archive_iteration up to its loop: the count goes up (the model keeps
\* it modulo 10, which is all the loop reads of it), every tenth iteration
\* asks for the tip and keeps the answer if there is one, and the slots
\* after last_processed_slot are asked for; without an answer the iteration
\* has failed.
FetchSlots ==
    /\ indexer.pc = "sleep"
    /\ \E tip_answered, slots_answered \in BOOLEAN :
          LET count == (indexer.iteration_count + 1) % 10
              start == indexer.last_processed_slot + 1
          IN  indexer' = [indexer EXCEPT
                !.iteration_count = count,
                !.latest_slot = IF count = 0 /\ tip_answered
                                THEN indexer.tip ELSE @,
                !.slots = IF slots_answered
                          THEN blocks_with_limit(indexer.chain, start,
                                                 indexer.tip, BatchLimit)
                          ELSE <<>>,
                !.pc = IF slots_answered THEN "loop" ELSE "sleep",
                !.failed_at = IF slots_answered THEN @ ELSE @ \cup {start}]
    /\ ArchiveUnchanged

\* The loop body for the next slot of the answer: the block is fetched,
\* processed and archived; each of the three can fail, which ends the
\* iteration.
ArchiveSlot ==
    /\ indexer.pc = "loop"
    /\ indexer.slots # <<>>
    /\ \E ok \in BOOLEAN :
          LET slot == Head(indexer.slots)
          IN  indexer' = [indexer EXCEPT
                !.last_processed_slot = processed_slot(@, slot, ok),
                !.stored = IF ok THEN Append(@, slot) ELSE @,
                !.slots  = IF ok THEN Tail(@) ELSE <<>>,
                !.pc     = IF ok THEN "loop" ELSE "sleep",
                !.failed_at = IF ok THEN @ ELSE @ \cup {slot}]
    /\ ArchiveUnchanged

\* The answer is used up: the iteration returns Ok and the loop sleeps.
EndIteration ==
    /\ indexer.pc = "loop"
    /\ indexer.slots = <<>>
    /\ indexer' = [indexer EXCEPT !.pc = "sleep"]
    /\ ArchiveUnchanged

NextArchive == NextSlot \/ FetchSlots \/ ArchiveSlot \/ EndIteration

SpecArchive == InitArchive /\ [][NextArchive]_vars

\* ------------------------------------------------------------------------
\* The proof-of-work solver of a storage node: solve_challenge and the
\* threads it spawns.

\* The nonces whose attempts the model tells apart; every attempt past them
\* fails.
MaxNonce == 3

\* The largest number of threads, num_cpus::get().
MaxThreads == 2

\* The target difficulty of the solver runs; it is below 2^32, so that
\* `difficulty as u32` is the difficulty.
SolverTarget == 2

\* What solve_with_memory can come to for a nonce: an error, or a solution
\* of some difficulty.
Attempts ==
    {[ok |-> FALSE, difficulty |-> 0]}
        \cup {[ok |-> TRUE, difficulty |-> d] : d \in 1..SolverTarget}

NoAttempt == [ok |-> FALSE, difficulty |-> 0]

\* solve_with_memory for a nonce, the challenge and the data being fixed.
solve_with_memory(table, nonce) ==
    IF nonce \in DOMAIN table THEN table[nonce] ELSE NoAttempt

is_solved_any(attempt, difficulty) == attempt.ok

\* The test of a worker on its attempt.
is_solved(attempt, difficulty) ==
    attempt.ok /\ attempt.difficulty >= difficulty

\* solve_challenge at its call: nothing found, nothing sent, no thread
\* spawned.
Solver(num_threads, table, difficulty) ==
    [ pc          |-> "spawn",
      num_threads |-> num_threads,
      table       |-> table,
      difficulty  |-> difficulty,
      found       |-> FALSE,
      channel     |-> <<>>,
      spawned     |-> 0,
      joined      |-> 0,
      wpc         |-> [i \in 0..(num_threads - 1) |-> "unborn"],
      nonce       |-> [i \in 0..(num_threads - 1) |-> i],
      tried       |-> [i \in 0..(num_threads - 1) |-> {}],
      held        |-> [i \in 0..(num_threads - 1) |-> NoAttempt],
      solution    |-> NoAttempt ]

InitSolver ==
    /\ Initialized
    /\ probe = NoProbe
    /\ indexer = NoIndexer
    /\ \E num_threads \in 1..MaxThreads :
        \E table \in [0..MaxNonce -> Attempts] :
            solver = Solver(num_threads, table, SolverTarget)

SolverUnchanged ==
    UNCHANGED <<tapeVars, minerVars, proofVars, now, probe, indexer>>

Threads == 0..(MaxThreads - 1)

\* The nonce a worker turns to after a failed attempt; past MaxNonce the
\* model keeps it where it is.
next_nonce(nonce, num_threads) ==
    IF nonce > MaxNonce THEN nonce ELSE nonce + num_threads

\* The spawning loop: thread i starts at nonce i.
Spawn ==
    /\ solver.pc = "spawn"
    /\ solver' =
          IF solver.spawned < solver.num_threads
          THEN [solver EXCEPT !.wpc[solver.spawned] = "check",
                              !.spawned = @ + 1]
          ELSE [solver EXCEPT !.pc = "recv"]
    /\ SolverUnchanged

\* rx.recv(): the first solution sent.
Recv ==
    /\ solver.pc = "recv"
    /\ solver.channel # <<>>
    /\ solver' = [solver EXCEPT !.solution = Head(solver.channel),
                                !.channel  = Tail(@),
                                !.pc       = "stop"]
    /\ SolverUnchanged

\* found.store(true) of the calling thread.
Stop ==
    /\ solver.pc = "stop"
    /\ solver' = [solver EXCEPT !.found = TRUE, !.pc = "join"]
    /\ SolverUnchanged

\* handle.join() of the next thread, and the return after the last.
Join ==
    /\ solver.pc = "join"
    /\ \/ /\ solver.joined < solver.num_threads
          /\ solver.wpc[solver.joined] = "done"
          /\ solver' = [solver EXCEPT !.joined = @ + 1]
       \/ /\ solver.joined = solver.num_threads
          /\ solver' = [solver EXCEPT !.pc = "done"]
    /\ SolverUnchanged

\* A worker's load of `found` at the head of its loop.  `found` is one
\* atomic location, loaded and stored relaxed; the load gives the value last
\* stored.
CheckFound(i) ==
    /\ i \in DOMAIN solver.wpc
    /\ solver.wpc[i] = "check"
    /\ solver' = [solver EXCEPT
                    !.wpc[i] = IF solver.found THEN "done" ELSE "solve"]
    /\ SolverUnchanged

\* A worker's attempt on its nonce: a solution that is good enough is kept
\* for sending, after anything else the worker moves num_threads nonces on.
Attempt(i) ==
    /\ i \in DOMAIN solver.wpc
    /\ solver.wpc[i] = "solve"
    /\ LET attempt == solve_with_memory(solver.table, solver.nonce[i])
       IN  solver' =
             IF is_solved(attempt, solver.difficulty)
             THEN [solver EXCEPT !.tried[i] = @ \cup {solver.nonce[i]},
                                 !.held[i]  = attempt,
                                 !.wpc[i]   = "store"]
             ELSE [solver EXCEPT !.tried[i] = @ \cup {solver.nonce[i]},
                                 !.nonce[i] = next_nonce(@, solver.num_threads),
                                 !.wpc[i]   = "check"]
    /\ SolverUnchanged

\* found.store(true) of a worker that holds a solution.
StoreFound(i) ==
    /\ i \in DOMAIN solver.wpc
    /\ solver.wpc[i] = "store"
    /\ solver' = [solver EXCEPT !.found = TRUE, !.wpc[i] = "send"]
    /\ SolverUnchanged

\* tx.send(solution) of that worker, which then leaves its loop.
Send(i) ==
    /\ i \in DOMAIN solver.wpc
    /\ solver.wpc[i] = "send"
    /\ solver' = [solver EXCEPT !.channel = Append(@, solver.held[i]),
                                !.wpc[i]  = "done"]
    /\ SolverUnchanged

Caller == Spawn \/ Recv \/ Stop \/ Join

Worker(i) == CheckFound(i) \/ Attempt(i) \/ StoreFound(i) \/ Send(i)

NextSolver == Caller \/ \E i \in Threads : Worker(i)

SpecSolver == InitSolver /\ [][NextSolver]_vars

\* Every thread that can run does run: the scheduler starves neither the
\* caller nor a worker.
SpecSolverFair ==
    /\ SpecSolver
    /\ WF_vars(Caller)
    /\ \A i \in Threads : WF_vars(Worker(i))

\* ------------------------------------------------------------------------
\* The mining loop of a storage node that archived every transaction.

\* What an iteration of the loop comes to: how it ended, the recall target
\* it chose, and the Mine it sent if it sent one.
Iteration(err, tape_number, segment_number, tape, mine) ==
    [err |-> err, tape_number |-> tape_number,
     segment_number |-> segment_number, tape |-> tape, mine |-> mine]

NoMine == MineArgs(Solution(ZeroChallenge, NoData, 0), NoData, NoProof)

\* compute_challenge_solution: the recall segment is copied out of the store
\* (copy_from_slice panics on a segment that is not SEGMENT_SIZE bytes
\* long), the leaves are recomputed and the proof taken from them, the root
\* is compared with the tape's, and the solver is run on the challenge and
\* the recall segment for the epoch's difficulty.
compute_challenge_solution(tape, miner_challenge, segment_number, segments, epoch_difficulty) ==
    LET at == {i \in 1..Len(segments) : segments[i][1] = segment_number}
        leaves == [i \in 1..Len(segments) |->
                    compute_leaf(segments[i][1],
                                 padded_array(SEGMENT_SIZE, segments[i][2]))]
        rebuilt == rebuilt_from(MerkleTree_new(tape.merkle_seed), segments, 1)
    IN  IF \E i \in at : Len(segments[i][2]) # SEGMENT_SIZE
        THEN [err |-> "Panic", mine |-> NoMine]
        ELSE LET recall_segment ==
                    IF at = {} THEN Fill(0, SEGMENT_SIZE)
                    ELSE segments[CHOOSE i \in at : TRUE][2]
             IN  IF ~rebuilt.ok
                 THEN [err |-> "Failed to add leaf", mine |-> NoMine]
                 ELSE IF rebuilt.tree.root # tape.merkle_root
                 THEN [err |-> "Merkle root mismatch", mine |-> NoMine]
                 ELSE [err  |-> "Ok",
                       mine |-> MineArgs(
                            Solution(miner_challenge, recall_segment,
                                     epoch_difficulty),
                            recall_segment,
                            get_merkle_proof(tape.merkle_seed, leaves,
                                             segment_number))]

\* try_mine_iteration for miner m, on a store that holds every finalized
\* tape with all its transactions.
try_mine_iteration(m) ==
    LET miner_challenge == compute_challenge(block.challenge,
                                             miners[m].current_challenge)
        tape_number     == compute_recall_tape(miner_challenge,
                                               block.challenge_set)
        found           == {t \in DOMAIN events :
                                archived_number(t) = tape_number}
    IN  IF found = {}
        THEN Iteration("Tape not found", tape_number, 0, NoTarget, NoMine)
        ELSE
        LET tape_address   == CHOOSE t \in found : TRUE
            tape           == tapes[tape_address]
            segment_number == compute_recall_segment(miner_challenge,
                                                     tape.total_segments)
            store          == archived(tape_address,
                                       {"WRITE", "UPDATE", "FINALIZE"})
            segments       == get_tape_segments(store.segments)
        IN  IF segment_number \notin DOMAIN store.segments
            THEN Iteration("SegmentNotFound", tape_number, segment_number,
                           tape_address, NoMine)
            ELSE IF Len(segments) # tape.total_segments
            THEN Iteration("Local store is missing some segments",
                           tape_number, segment_number, tape_address, NoMine)
            ELSE LET solved == compute_challenge_solution(
                                    tape, miner_challenge, segment_number,
                                    segments, epoch.target_difficulty)
                 IN  Iteration(solved.err, tape_number, segment_number,
                               tape_address, solved.mine)

\* ================================================================= claims

\* ----------------------------------------------------------------------- C1

\* C1: tape.state only moves forward along Created -> Writing -> Finalized.
\* In every step a tape that exists keeps existing, a new tape starts in
\* Created, a Created tape stays Created or becomes Writing, a Writing tape
\* stays Writing or becomes Finalized, and a Finalized tape stays Finalized.
C1_StateMovesForward ==
    [][ /\ \A t \in DOMAIN tapes :
            /\ t \in DOMAIN tapes'
            /\ tapes[t].state = Created =>
                    tapes'[t].state \in {Created, Writing}
            /\ tapes[t].state = Writing =>
                    tapes'[t].state \in {Writing, Finalized}
            /\ tapes[t].state = Finalized => tapes'[t].state = Finalized
        /\ \A t \in (DOMAIN tapes') \ (DOMAIN tapes) :
            tapes'[t].state = Created ]_vars

\* A tape went through Create, Write, Update and Finalize.
C1_Witness ==
    \E t \in DOMAIN tapes :
        /\ tapes[t].state = Finalized
        /\ Len(written[t]) > 0
        /\ updates[t] > 0

\* ----------------------------------------------------------------------- C2

\* C2 as stated: for the tape's authority, Finalize on a tape that is not
\* Writing returns UnexpectedState, and Write and Update on a Finalized tape
\* return UnexpectedState.
C2_AsStated ==
    \A t \in DOMAIN tapes :
        LET signer == tapes[t].authority
        IN  /\ tapes[t].state # Writing =>
                process_finalize(signer, t, writer_pda(t)).err
                    = "UnexpectedState"
            /\ tapes[t].state = Finalized =>
                /\ \A data \in WriteData :
                    process_write(signer, t, writer_pda(t), data).err
                        = "UnexpectedState"
                /\ \A u \in UpdateInputs(t), new \in NewData :
                    process_update(signer, t, writer_pda(t), u.sn, u.old,
                                   new, u.proof).err = "UnexpectedState"

\* ----------------------------------------------------------------------- C4

\* The leaves of the canonical segments written to tape t, each Update
\* applied: leaf i is the hash of segment number i and its content.
CanonicalLeaves(t) ==
    [i \in 1..Len(written[t]) |-> Leaf(i - 1, written[t][i])]

\* C4: the merkle_root of every finalized tape is the root of the full tree
\* over the canonical segments of its Writes, with its Updates applied, in a
\* tree seeded with the tape's merkle_seed.
C4_FinalRootIsTreeOfSegments ==
    \A t \in DOMAIN tapes :
        tapes[t].state = Finalized =>
            tapes[t].merkle_root
                = subtree_root(tapes[t].merkle_seed, CanonicalLeaves(t),
                               TREE_HEIGHT, 0)

\* A finalized tape that took two Writes and an Update.
C4_Witness ==
    \E t \in DOMAIN tapes :
        /\ tapes[t].state = Finalized
        /\ Len(written[t]) > SEGMENT_SIZE
        /\ updates[t] > 0
        /\ \E i \in 1..Len(written[t]) : written[t][i] = Fill(2, SEGMENT_SIZE)

\* ----------------------------------------------------------------------- C5

\* C5: while a tape is Created or Writing, total_segments is the number of
\* leaves appended to its Writer's tree.
C5_SegmentsAreLeaves ==
    \A t \in DOMAIN tapes :
        tapes[t].state \in {Created, Writing} =>
            /\ writer_pda(t) \in DOMAIN writers
            /\ tapes[t].total_segments
                    = writers[writer_pda(t)].state.next_index
            /\ tapes[t].total_segments = Len(written[t])

\* A Writing tape with leaves appended and an Update accepted.
C5_Witness ==
    \E t \in DOMAIN tapes :
        /\ tapes[t].state = Writing
        /\ tapes[t].total_segments > 1
        /\ updates[t] > 0

\* ----------------------------------------------------------------------- C6

\* ceil(n / d).
CeilDiv(n, d) == (n + d - 1) \div d

\* C6: an accepted Write of n bytes increases total_segments by
\* ceil(n / SEGMENT_SIZE) and total_size by n, and sets merkle_root to the
\* root of the Writer's tree.
C6_WriteEffect ==
    [][ \A signer \in Authorities, t \in TapeAddrs, data \in WriteData :
            Write(signer, t, writer_pda(t), data) =>
                /\ tapes'[t].total_segments
                    = tapes[t].total_segments
                        + CeilDiv(Len(data), SEGMENT_SIZE)
                /\ tapes'[t].total_size = tapes[t].total_size + Len(data)
                /\ tapes'[t].merkle_root = writers'[writer_pda(t)].state.root
      ]_vars

\* A tape after a Write of SEGMENT_SIZE + 1 bytes into the empty tape.
C6_Witness ==
    \E t \in DOMAIN tapes :
        /\ tapes[t].state = Writing
        /\ tapes[t].total_size = SEGMENT_SIZE + 1
        /\ tapes[t].total_segments = 2

\* ----------------------------------------------------------------------- C7

\* The Write of `data` to tape t passes every check before the append loop.
ReachesAppend(signer, t) ==
    /\ t \in DOMAIN tapes
    /\ tapes[t].authority = signer
    /\ writer_pda(t) \in DOMAIN writers
    /\ tapes[t].state \in {Created, Writing}

\* C7 as stated: a Write to a tape whose Writer tree is full, or whose
\* segments do not all fit, fails with WriteFailed and changes nothing.
C7_AsStated ==
    \A signer \in Authorities, t \in TapeAddrs, data \in WriteData :
        ( /\ ReachesAppend(signer, t)
          /\ \/ writers[writer_pda(t)].state.next_index = Pow2(TREE_HEIGHT)
             \/ writers[writer_pda(t)].state.next_index
                    + CeilDiv(Len(data), SEGMENT_SIZE) > Pow2(TREE_HEIGHT) ) =>
            LET out == process_write(signer, t, writer_pda(t), data)
            IN  /\ out.err = "WriteFailed"
                /\ Committed(out) = <<tapes, writers, archive>>

\* C7: a Write whose segments do not all fit in the Writer's tree fails with
\* WriteFailed and leaves the tapes, the writers and the archive as they
\* were.
C7_FullTreeWriteFails ==
    \A signer \in Authorities, t \in TapeAddrs, data \in WriteData :
        ( /\ ReachesAppend(signer, t)
          /\ writers[writer_pda(t)].state.next_index
                + CeilDiv(Len(data), SEGMENT_SIZE) > Pow2(TREE_HEIGHT) ) =>
            LET out == process_write(signer, t, writer_pda(t), data)
            IN  /\ out.err = "WriteFailed"
                /\ Committed(out) = <<tapes, writers, archive>>

\* A tape with room for one segment and a payload of two, and a full tape.
C7_Witness ==
    \E t \in DOMAIN tapes :
        /\ ReachesAppend(tapes[t].authority, t)
        /\ writers[writer_pda(t)].state.next_index = Pow2(TREE_HEIGHT) - 1
        /\ process_write(tapes[t].authority, t, writer_pda(t),
                         Fill(1, SEGMENT_SIZE + 1)).err = "WriteFailed"

\* ----------------------------------------------------------------------- C3

FinalizedTapes == {t \in DOMAIN tapes : tapes[t].state = Finalized}

\* C3: archive.tapes_stored is the number of Finalized tapes, their numbers
\* are exactly 1..archive.tapes_stored, no two of them share a number, and
\* every other tape has number 0.
C3_TapeNumbers ==
    /\ archive.tapes_stored = Cardinality(FinalizedTapes)
    /\ {tapes[t].number : t \in FinalizedTapes} = 1..archive.tapes_stored
    /\ \A t1, t2 \in FinalizedTapes :
            tapes[t1].number = tapes[t2].number => t1 = t2
    /\ \A t \in (DOMAIN tapes) \ FinalizedTapes : tapes[t].number = 0

\* Two tapes are Finalized, the one created by a2 first.
C3_Witness ==
    /\ Cardinality(FinalizedTapes) = 2
    /\ tapes[<<"a2", "n1">>].number = 1

\* ----------------------------------------------------------------------- C8

\* C8: a Write, Update or Finalize signed by another than the tape's
\* authority, and a Mine, Claim or Close signed by another than the miner's
\* authority, is rejected and leaves every record as it was.
C8_OnlyTheAuthority ==
    /\ \A signer \in Authorities, t \in DOMAIN tapes :
        signer # tapes[t].authority =>
            /\ \A data \in WriteData \cup SimpleData :
                LET out == process_write(signer, t, writer_pda(t), data)
                IN  /\ out.err # "Ok"
                    /\ Committed(out) = <<tapes, writers, archive>>
            /\ \A u \in UpdateInputs(t), new \in NewData :
                LET out == process_update(signer, t, writer_pda(t), u.sn,
                                          u.old, new, u.proof)
                IN  /\ out.err # "Ok"
                    /\ Committed(out) = <<tapes, writers, archive>>
            /\ LET out == process_finalize(signer, t, writer_pda(t))
               IN  /\ out.err # "Ok"
                   /\ Committed(out) = <<tapes, writers, archive>>
    /\ \A signer \in Authorities, m \in DOMAIN miners :
        signer # miners[m].authority =>
            /\ \A t \in DOMAIN tapes, unbound \in Unbounds :
                \A i \in MineInputs(m, t) :
                    LET out == process_mine(signer, m, t, i.solution,
                                            i.segment, i.proof, 1, now,
                                            unbound)
                    IN  /\ out.err # "Ok"
                        /\ CommittedM(out) = <<miners, epoch, block, treasury>>
            /\ \A amount \in ClaimAmounts(m) \cup {0} :
                LET out == process_claim(signer, m, amount)
                IN  /\ out.err # "Ok"
                    /\ CommittedM(out) = <<miners, epoch, block, treasury>>
            /\ LET out == process_close(signer, m)
               IN  /\ out.err # "Ok"
                   /\ CommittedM(out) = <<miners, epoch, block, treasury>>

\* A tape its authority can finalize and write to, a miner with rewards its
\* authority can claim, a miner its authority can close, and a Mine its
\* authority can submit: each is refused to the other signer.
C8_Witness ==
    /\ \E t \in DOMAIN tapes :
        /\ tapes[t].state = Writing
        /\ updates[t] = 0
        /\ process_finalize(tapes[t].authority, t, writer_pda(t)).err = "Ok"
    /\ \E m \in DOMAIN miners :
        /\ miners[m].unclaimed_rewards > 0
        /\ process_claim(miners[m].authority, m,
                         miners[m].unclaimed_rewards).err = "Ok"
        /\ \E t \in DOMAIN tapes, unbound \in Unbounds :
            \E i \in MineInputs(m, t) :
                process_mine(miners[m].authority, m, t, i.solution, i.segment,
                             i.proof, 1, now, unbound).err = "Ok"
    /\ \E m \in DOMAIN miners :
        process_close(miners[m].authority, m).err = "Ok"

\* ----------------------------------------------------------------------- C9

RECURSIVE SumOf(_, _)
SumOf(f, S) ==
    IF S = {} THEN 0
    ELSE LET x == CHOOSE y \in S : TRUE
         IN  f[x] + SumOf(f, S \ {x})

TotalUnclaimed ==
    SumOf([m \in DOMAIN miners |-> miners[m].unclaimed_rewards], DOMAIN miners)

TotalClaimed == SumOf(claimed, DOMAIN claimed)

\* C9: the unclaimed rewards of all miners plus everything their Claims
\* transferred is the sum of final_reward over the accepted Mines.
C9_RewardsAccounted == TotalUnclaimed + TotalClaimed = granted

\* One miner claimed its reward and was closed, another holds a reward.
C9_Witness ==
    /\ \E m \in DOMAIN claimed : m \notin DOMAIN miners /\ claimed[m] > 0
    /\ \E m \in DOMAIN miners : miners[m].unclaimed_rewards > 0
    /\ mines = 2

\* ---------------------------------------------------------------------- C10

ClosedMiners == (DOMAIN claimed) \ (DOMAIN miners)

\* C11: Close succeeds only when miner.unclaimed_rewards == 0 (a Close that
\* the handler accepts finds unclaimed_rewards at 0 and removes the record,
\* and a Miner record never disappears while it holds unclaimed rewards), and
\* while the record of a closed miner is absent every Mine for that miner,
\* by any signer, for any tape and with any solution, is rejected and
\* changes nothing.
C11_CloseThenNoMine ==
    [][ /\ \A signer \in Authorities, m \in DOMAIN miners :
            LET out == process_close(signer, m)
            IN  out.err = "Ok" =>
                    /\ miners[m].unclaimed_rewards = 0
                    /\ m \notin DOMAIN out.miners
        /\ \A m \in DOMAIN miners :
            m \notin DOMAIN miners' => miners[m].unclaimed_rewards = 0
        /\ \A m \in ClosedMiners, signer \in Authorities, t \in DOMAIN tapes,
              unbound \in Unbounds :
            \A i \in AnyMineInputs(t) :
                LET out == process_mine(signer, m, t, i.solution, i.segment,
                                        i.proof, 1, now, unbound)
                IN  /\ out.err # "Ok"
                    /\ CommittedM(out) = <<miners, epoch, block, treasury>>
      ]_vars

\* A miner that mined and claimed was closed, a finalized tape is there to
\* mine, and another miner still holds rewards and cannot be closed.
C11_Witness ==
    /\ \E m \in ClosedMiners : claimed[m] > 0
    /\ \E t \in DOMAIN tapes : tapes[t].state = Finalized
    /\ \E m \in DOMAIN miners :
        /\ miners[m].unclaimed_rewards > 0
        /\ process_close(miners[m].authority, m).err = "InvalidAccountData"

\* ---------------------------------------------------------------------- C12

\* C12: every Mine the handler accepts names the challenged tape: with
\* mc = hash(block.challenge, miner.challenge), the tape account's number is
\* recall_tape(mc, archive.tapes_stored); and no Mine is accepted while
\* archive.tapes_stored is 0, whatever tape, segment, proof and solution it
\* carries.
C12_MineNamesTheChallengedTape ==
    \A signer \in Authorities, m \in DOMAIN miners, t \in DOMAIN tapes,
       unbound \in Unbounds :
        \A i \in MineInputs(m, t) \cup AnyMineInputs(t) :
            LET out == process_mine(signer, m, t, i.solution, i.segment,
                                    i.proof, 1, now, unbound)
                mc  == compute_challenge(block.challenge,
                                         miners[m].current_challenge)
            IN  out.err = "Ok" =>
                    /\ archive.tapes_stored # 0
                    /\ tapes[t].number =
                            compute_recall_tape(mc, archive.tapes_stored)

\* Two tapes are finalized, a Mine for the challenged one is accepted and
\* the same miner's Mine for the other one, with that tape's own data and
\* proof, is not.
C12_Witness ==
    /\ archive.tapes_stored = 2
    /\ \E m \in DOMAIN miners, t \in DOMAIN tapes, u \in DOMAIN tapes,
          unbound \in Unbounds :
        /\ t # u
        /\ tapes[u].state = Finalized
        /\ \E i \in MineInputs(m, t) :
            process_mine(miners[m].authority, m, t, i.solution, i.segment,
                         i.proof, 1, now, unbound).err = "Ok"
        /\ \A i \in MineInputs(m, u) :
            process_mine(miners[m].authority, m, u, i.solution, i.segment,
                         i.proof, 1, now, unbound).err
                \in {"SolutionTooEasy", "SolutionInvalid"}

\* ---------------------------------------------------------------------- C13

C14_TooEasyComesFirst ==
    \A m \in DOMAIN miners, t \in DOMAIN tapes, unbound \in Unbounds :
        /\ \A i \in LowMineInputs(m, t) :
            LET out == process_mine(miners[m].authority, m, t, i.solution,
                                    i.segment, i.proof, 1, now, unbound)
            IN  /\ out.err = "SolutionTooEasy"
                /\ CommittedM(out) = <<miners, epoch, block, treasury>>
        /\ \A i \in MineInputs(m, t) \cup AnyMineInputs(t) :
            LET out == process_mine(miners[m].authority, m, t, i.solution,
                                    i.segment, i.proof, 1, now, unbound)
            IN  out.err \in {"Ok", "SolutionTooEasy", "SolutionInvalid"}

\* For one miner there are, at the target difficulty, a Mine that is
\* accepted, one refused for the tape, and one for the same tape refused for
\* its segment or solution: each of them is SolutionTooEasy one difficulty
\* lower.
C14_Witness ==
    \E m \in DOMAIN miners, t \in DOMAIN tapes, u \in DOMAIN tapes,
       unbound \in Unbounds :
        /\ \E i \in MineInputs(m, t) :
            /\ process_mine(miners[m].authority, m, t, i.solution,
                            i.segment, i.proof, 1, now, unbound).err = "Ok"
            /\ [i EXCEPT !.solution.difficulty = epoch.target_difficulty - 1]
                    \in LowMineInputs(m, t)
        /\ \E i \in AnyMineInputs(t) :
            /\ i.solution.difficulty = epoch.target_difficulty
            /\ process_mine(miners[m].authority, m, t, i.solution,
                            i.segment, i.proof, 1, now, unbound).err
                    = "SolutionInvalid"
        /\ tapes[u].state = Finalized
        /\ tapes[u].number # tapes[t].number

\* ---------------------------------------------------------------------- C15

MinedIn(m) ==
    /\ m \in DOMAIN miners
    /\ m \in DOMAIN miners'
    /\ miners'[m].total_proofs = miners[m].total_proofs + 1

C17_EpochProgress ==
    [][ /\ epoch.progress >= 0
        /\ epoch.progress <= EPOCH_BLOCKS
        /\ epoch'.progress >= 0
        /\ epoch'.progress <= EPOCH_BLOCKS
        /\ IF epoch'.number # epoch.number
           THEN /\ epoch.progress = EPOCH_BLOCKS
                /\ epoch'.progress = 0
                /\ epoch'.number = epoch.number + 1
           ELSE epoch'.progress \in {epoch.progress, epoch.progress + 1}
        /\ (epoch.progress = EPOCH_BLOCKS /\ mines' # mines) =>
                epoch'.number = epoch.number + 1 ]_vars

\* The epoch advanced three times.
C17_Witness ==
    /\ epoch.number = 3
    /\ epoch.progress = 0
    /\ mines = 3 * (EPOCH_BLOCKS + 1)

\* ---------------------------------------------------------------------- C18

C19_DifficultyAdjustment ==
    [][ /\ epoch.target_difficulty >= MIN_DIFFICULTY
        /\ epoch'.target_difficulty >= MIN_DIFFICULTY
        /\ epoch'.number # epoch.number =>
                LET avg == (now - epoch.last_epoch_at) \div EPOCH_BLOCKS
                IN  IF avg < BLOCK_DURATION_SECONDS
                    THEN epoch'.target_difficulty
                            = epoch.target_difficulty + 1
                    ELSE epoch'.target_difficulty
                            = Max(epoch.target_difficulty - 1, MIN_DIFFICULTY)
      ]_vars

\* The first epoch was mined at once and the difficulty went up; the second
\* took EPOCH_BLOCKS block durations and the difficulty came down again.
C19_Witness ==
    /\ epoch.number = 2
    /\ epoch.last_epoch_at = EpochTick
    /\ epoch.target_difficulty = MIN_DIFFICULTY

\* ---------------------------------------------------------------------- C20

\* C20 as stated: at each epoch advance target_participation increases by 1
\* (or stays, at the maximum) when epoch.duplicates == 0 and otherwise
\* decreases by 1 but not below the minimum; and target_participation is at
\* least the minimum in every reachable state.
C20_AsStated ==
    [][ /\ epoch.target_participation >= MIN_PARTICIPATION_TARGET
        /\ epoch'.target_participation >= MIN_PARTICIPATION_TARGET
        /\ epoch'.number # epoch.number =>
                IF epoch.duplicates = 0
                THEN epoch'.target_participation
                        \in {epoch.target_participation,
                             epoch.target_participation + 1}
                ELSE epoch'.target_participation
                        = Max(epoch.target_participation - 1,
                              MIN_PARTICIPATION_TARGET) ]_vars


\* C21: a step that advances the epoch leaves epoch.reward_rate equal to
\* get_storage_rate(archive.bytes_stored) + get_inflation_rate(epoch.number),
\* taken at the new epoch number; a step that does not advance the epoch
\* leaves reward_rate, target_difficulty and target_participation as they
\* were.
C21_RewardRateAtAdvance ==
    [][ /\ epoch'.number # epoch.number =>
              epoch'.reward_rate = get_storage_rate(archive'.bytes_stored)
                                   + get_inflation_rate(epoch'.number)
        /\ epoch'.number = epoch.number =>
              /\ epoch'.reward_rate = epoch.reward_rate
              /\ epoch'.target_difficulty = epoch.target_difficulty
              /\ epoch'.target_participation = epoch.target_participation
      ]_vars

\* The epoch advanced twice, and Mines were accepted in the third epoch.
C21_Witness ==
    /\ epoch.number = 2
    /\ epoch.progress >= 1
    /\ epoch.reward_rate = get_storage_rate(archive.bytes_stored)
                           + get_inflation_rate(epoch.number)


\* C22: get_storage_rate is monotonically non-decreasing in the archive size
\* (a <= b implies rate(a) <= rate(b)), and is 20 * 10^10 for every size of
\* 1 PiB or more.
C22_AsStated ==
    probe.res # <<>> =>
        /\ LessEq(probe.arg[1], probe.arg[2]) =>
                LessEq(probe.res[1], probe.res[2])
        /\ LessEq(PiB, probe.arg[1]) => probe.res[1] = <<200, 0>>


\* C23: the epoch advances every EPOCH_BLOCKS blocks: at an epoch advance
\* block.number is exactly EPOCH_BLOCKS more than it was at the epoch advance
\* before it.
C23_AsStated ==
    [][ (epoch'.number # epoch.number /\ advanced_at # <<>>) =>
            block'.number = advanced_at[1] + EPOCH_BLOCKS ]_vars


\* C24: in every reachable state archive.bytes_stored is the sum of the
\* total_size of the Finalized tapes.
C24_AsStated ==
    archive.bytes_stored =
        SumOf([t \in DOMAIN tapes |-> tapes[t].total_size], FinalizedTapes)


\* The records a rejected tape instruction leaves are those before it.
KeepsTapeRecords(out) ==
    out.err # "Ok" => Committed(out) = <<tapes, writers, archive>>

\* The tape handler returned without writing to a record.
WroteNoTapeRecord(out) ==
    <<out.tapes, out.writers, out.archive>> = <<tapes, writers, archive>>

\* The records a rejected miner instruction leaves are those before it.
KeepsMinerRecords(out) ==
    out.err # "Ok" => CommittedM(out) = <<miners, epoch, block, treasury>>

\* The miner handler returned without writing to a record.
WroteNoMinerRecord(out) ==
    <<out.miners, out.epoch, out.block, out.treasury>>
        = <<miners, epoch, block, treasury>>

\* C25: an instruction that returns an error leaves the Archive, Epoch, Block,
\* Tape, Writer and Miner records and the token balances as they were,
\* whichever check failed. Every check of a handler precedes its first write
\* to a record, so the handler itself has written nothing when it returns the
\* error; the two errors that come after a write, a segment that no longer
\* fits the tree in the loop of process_write and a transfer the treasury
\* cannot pay in process_claim, leave the records unchanged because the
\* runtime discards what the failed instruction wrote.
C25_RejectedChangesNothing ==
    /\ \A signer \in Authorities, sh \in SlotHashes :
          LET out == process_create(signer, "n1", sh)
          IN  /\ KeepsTapeRecords(out)
              /\ out.err # "Ok" => WroteNoTapeRecord(out)
    /\ \A signer \in Authorities, t \in TheTapes, w \in TheTapes :
          /\ \A data \in WriteData \cup SimpleData :
                LET out == process_write(signer, t, w, data)
                IN  /\ KeepsTapeRecords(out)
                    /\ out.err \notin {"Ok", "WriteFailed"} =>
                            WroteNoTapeRecord(out)
          /\ \A u \in UpdateInputs(t), new \in NewData :
                LET out == process_update(signer, t, w, u.sn, u.old, new,
                                          u.proof)
                IN  /\ KeepsTapeRecords(out)
                    /\ out.err # "Ok" => WroteNoTapeRecord(out)
          /\ LET out == process_finalize(signer, t, w)
             IN  /\ KeepsTapeRecords(out)
                 /\ out.err # "Ok" => WroteNoTapeRecord(out)
    /\ \A signer \in Authorities :
          LET out == process_register(signer, "n1", 1, now)
          IN  /\ KeepsMinerRecords(out)
              /\ out.err # "Ok" => WroteNoMinerRecord(out)
    /\ \A signer \in Authorities, m \in TheMiners :
          /\ \A t \in TheTapes, unbound \in Unbounds :
                \A i \in AnyMineInputs(t) \cup MineInputs(m, t) :
                    LET out == process_mine(signer, m, t, i.solution,
                                            i.segment, i.proof, 1, now,
                                            unbound)
                    IN  /\ KeepsMinerRecords(out)
                        /\ out.err # "Ok" => WroteNoMinerRecord(out)
          /\ \A amount \in ClaimAmounts(m) :
                LET out == process_claim(signer, m, amount)
                IN  /\ KeepsMinerRecords(out)
                    /\ out.err \notin {"Ok", "InsufficientFunds"} =>
                            WroteNoMinerRecord(out)
          /\ LET out == process_close(signer, m)
             IN  /\ KeepsMinerRecords(out)
                 /\ out.err # "Ok" => WroteNoMinerRecord(out)

\* A full tape refuses a further Write after the loop wrote to the tree, the
\* empty treasury refuses a Claim after the miner's balance was debited, and
\* a Close of that miner is refused by the check of its unclaimed rewards.
C25_Witness ==
    \E t \in TheTapes, m \in TheMiners, data \in SimpleData :
        /\ t \in DOMAIN tapes
        /\ m \in DOMAIN miners
        /\ miners[m].unclaimed_rewards > 0
        /\ LET out == process_write(tapes[t].authority, t, t, data)
           IN  out.err = "WriteFailed" /\ ~WroteNoTapeRecord(out)
        /\ LET out == process_claim(miners[m].authority, m,
                                    miners[m].unclaimed_rewards)
           IN  out.err = "InsufficientFunds" /\ ~WroteNoMinerRecord(out)
        /\ process_close(miners[m].authority, m).err = "InvalidAccountData"


\* No instruction was accepted since Initialize.
JustInitialized ==
    /\ tapes = Empty
    /\ claimed = Empty
    /\ mines = 0
    /\ now = 0

\* C26: immediately after Initialize no tape is stored; the epoch has number
\* 0, progress 0, target_difficulty MIN_DIFFICULTY, target_participation
\* MIN_PARTICIPATION_TARGET, reward_rate INITIAL_REWARD_RATE, duplicates 0 and
\* last_epoch_at 0; the block has number 0, progress 0 and a challenge that is
\* not zero; and the whole MAX_SUPPLY of tokens exists.
C26_AsStated ==
    JustInitialized =>
        /\ archive.tapes_stored = 0
        /\ epoch.number = 0
        /\ epoch.progress = 0
        /\ epoch.target_difficulty = MIN_DIFFICULTY
        /\ epoch.target_participation = MIN_PARTICIPATION_TARGET
        /\ epoch.reward_rate = INITIAL_REWARD_RATE
        /\ epoch.duplicates = 0
        /\ epoch.last_epoch_at = 0
        /\ block.number = 0
        /\ block.progress = 0
        /\ block.challenge # ZeroChallenge
        /\ treasury = MAX_SUPPLY


\* miner.last_proof_block: the block.number at the miner's last accepted
\* Mine, and 0 for a miner that has none.
LastProofBlock(m) == IF m \in DOMAIN proved_in THEN proved_in[m] ELSE 0

\* C27: an accepted Mine of a miner whose last_proof_block equals block.number
\* (both read before the Mine) sets its multiplier to min(multiplier + 1, 32),
\* and otherwise to max(multiplier - 1, 1), whatever the timestamps.
C27_AsStated ==
    [][ \A m \in DOMAIN miners :
            ( /\ mines' = mines + 1
              /\ m \in DOMAIN miners'
              /\ miners'[m].total_proofs = miners[m].total_proofs + 1 ) =>
                miners'[m].multiplier =
                    IF LastProofBlock(m) = block.number
                    THEN Min(miners[m].multiplier + 1,
                             MAX_CONSISTENCY_MULTIPLIER)
                    ELSE Max(miners[m].multiplier - 1,
                             MIN_CONSISTENCY_MULTIPLIER)
      ]_vars


\* C28: an accepted Mine that finds block.progress below
\* epoch.target_participation adds 1 to block.progress and leaves block.number
\* and block.challenge as they were; an accepted Mine that finds
\* block.progress at or above it rolls the block: number + 1, progress 0, the
\* challenge replaced by the next challenge; nothing else rolls the block.
C28_AsStated ==
    [][ /\ (mines' = mines + 1
            /\ block.progress < epoch.target_participation) =>
                /\ block'.progress = block.progress + 1
                /\ block'.number = block.number
                /\ block'.challenge = block.challenge
        /\ (mines' = mines + 1
            /\ block.progress >= epoch.target_participation) =>
                /\ block'.number = block.number + 1
                /\ block'.progress = 0
                /\ block'.challenge =
                      compute_next_challenge(block.challenge, 1)
        /\ mines' = mines => block' = block
      ]_vars


\* C29: epoch.duplicates is the number of Mines accepted since the last epoch
\* advance whose miner already had a Mine accepted in the same block; a
\* miner's first accepted Mine in a block is not counted.
C29_AsStated == epoch.duplicates = repeats


\* The composite challenge of a miner and the number of its recall tape.
MiningTarget(m) ==
    LET mc == compute_challenge(block.challenge, miners[m].current_challenge)
    IN  [ challenge |-> mc,
          tape      |-> compute_recall_tape(mc, archive.tapes_stored) ]

\* The recall segment of a miner in each finalized tape that bears the number
\* of its recall tape.
RecallSegments(m) ==
    [t \in {u \in FinalizedTapes : tapes[u].number = MiningTarget(m).tape}
        |-> recall_segment_of(miners[m], tapes[t])]

\* The Mines of miner m that the handler accepts, among those a client of the
\* miner can prepare.
AcceptedMines(m) ==
    {<<t, i>> \in UNION {{t} \X MineInputs(m, t) : t \in TheTapes} :
        \E unbound \in Unbounds :
            process_mine(miners[m].authority, m, t, i.solution, i.segment,
                         i.proof, 1, now, unbound).err = "Ok"}

\* C30: an accepted Mine of another miner that does not roll the block, and
\* any Create, Write, Update, Finalize, Register, Claim or Close, leave a
\* miner's composite challenge, recall tape and recall segment as they were,
\* and every Mine of that miner that was acceptable before is acceptable
\* after.
C30_AsStated ==
    [][ \A m \in (DOMAIN miners) \cap (DOMAIN miners') :
            ( /\ now' = now
              /\ miners'[m].total_proofs = miners[m].total_proofs
              /\ block'.number = block.number ) =>
                /\ MiningTarget(m)' = MiningTarget(m)
                /\ \A t \in DOMAIN RecallSegments(m) :
                      /\ t \in DOMAIN RecallSegments(m)'
                      /\ RecallSegments(m)'[t] = RecallSegments(m)[t]
                /\ AcceptedMines(m) \subseteq AcceptedMines(m)'
      ]_vars


\* ---------------------------------------------------------------------- C31

\* C31: every update of a counter leaves the sum, or the type's maximum when
\* the sum is beyond it: it neither wraps around nor aborts.
C31_AsStated ==
    probe.res # <<>> =>
        /\ probe.res[1].err = "Ok"
        /\ probe.res[1].value = saturating_add(probe.arg[2], probe.arg[3])


\* ---------------------------------------------------------------------- C33

\* C33: every Finalized tape holds at least one segment.
C33_AsStated == \A t \in FinalizedTapes : tapes[t].total_segments >= 1


\* ---------------------------------------------------------------------- C34

\* C34: whatever the number of tapes, every tape number from 1 up to it is
\* the recall tape of some challenge.
C34_AsStated ==
    (probe.res # <<>> /\ probe.arg[2] >= 1) =>
        \A n \in 1..probe.arg[2] :
            \E challenge \in RecallChallenges :
                compute_recall_tape(challenge, probe.arg[2]) = n


\* ---------------------------------------------------------------------- C35

\* C35: once a tape is stored, every registered miner that holds the tapes'
\* data has a Mine that process_mine accepts.
C35_AsStated ==
    archive.tapes_stored >= 1 =>
        \A m \in DOMAIN miners :
            \E t \in DOMAIN tapes, unbound \in Unbounds :
                \E i \in HolderMineInputs(m, t) :
                    process_mine(miners[m].authority, m, t, i.solution,
                                 i.segment, i.proof, 1, now,
                                 unbound).err = "Ok"


\* ---------------------------------------------------------------------- C36

\* What process_mine answers to the Mine i of miner m on tape t.
MineVerdict(m, t, i, slothash, unbound) ==
    IF m \notin DOMAIN miners THEN "InvalidAccountOwner"
    ELSE process_mine(miners[m].authority, m, t, i.solution, i.segment,
                      i.proof, slothash, now, unbound).err

\* C36: an accepted Mine replaces the miner's challenge and the block's by
\* their next challenges, and the same miner submitting the same Mine right
\* after it is rejected wherever that changed the block-and-miner challenge.
\* The next challenge is a keccak hash of the current one and so another
\* value; the model's challenges are words of ChallengeSpace values, among
\* which a hash can repeat a value, and the statement does not lean on
\* their arithmetic.
C36_ResubmissionRejected ==
    [][\A signer \in Authorities, m \in TheMiners, t \in TheTapes,
          unbound \in Unbounds :
        \A i \in MineInputs(m, t) :
            Mine(signer, m, t, i.solution, i.segment, i.proof, 1, unbound)
                => /\ miners'[m].current_challenge
                        = compute_next_challenge(miners[m].current_challenge,
                                                 1)
                   /\ block'.challenge
                        = compute_next_challenge(block.challenge, 1)
                   /\ compute_challenge(block.challenge,
                                        miners[m].current_challenge)'
                            # compute_challenge(block.challenge,
                                                miners[m].current_challenge)
                        => MineVerdict(m, t, i, 1, unbound)' # "Ok"]_vars

\* A miner that had a Mine accepted holds another challenge than the one it
\* registered with.
C36_Witness ==
    \E m \in DOMAIN miners :
        /\ miners[m].total_proofs >= 1
        /\ miners[m].current_challenge
                # compute_next_challenge(ZeroChallenge, 1)


\* ---------------------------------------------------------------------- C37

Reconstructs(t, kinds) ==
    LET store == archived(t, kinds)
    IN  /\ store.err = "Ok"
        /\ rebuilt_root(tapes[t], store.segments) = tapes[t].merkle_root
        /\ archived_number(t) = tapes[t].number

CheckedTarget(m) ==
    LET miner_challenge == compute_challenge(block.challenge,
                                             miners[m].current_challenge)
        recall_tape == compute_recall_tape(miner_challenge,
                                           archive.tapes_stored)
        chosen == {t \in FinalizedTapes : tapes[t].number = recall_tape}
    IN  <<recall_tape,
          IF chosen = {} THEN 0
          ELSE recall_segment_of(miners[m], tapes[CHOOSE t \in chosen : TRUE])>>

\* C38: whenever tapes are stored, the mining loop of a node that holds them
\* chooses for every registered miner the tape and the segment process_mine
\* checks, and the Mine it sends is accepted.
C38_AsStated ==
    archive.tapes_stored >= 1 =>
        \A m \in DOMAIN miners, unbound \in Unbounds :
            LET sent == try_mine_iteration(m)
            IN  /\ <<sent.tape_number, sent.segment_number>> = CheckedTarget(m)
                /\ sent.err = "Ok"
                /\ process_mine(miners[m].authority, m, sent.tape,
                                sent.mine.solution, sent.mine.segment,
                                sent.mine.proof, 1, now, unbound).err = "Ok"


\* ---------------------------------------------------------------------- C39

\* The slots with a block after `slot`.
BlocksAfter(slot) == {x \in indexer.chain : x > slot}

Lowest(S) == CHOOSE x \in S : \A y \in S : x <= y

\* Every block after the slot the loop started from, up to
\* last_processed_slot, was archived, once and in ascending order.
NoSlotSkipped ==
    /\ \A i, j \in 1..Len(indexer.stored) :
            i < j => indexer.stored[i] < indexer.stored[j]
    /\ {indexer.stored[i] : i \in 1..Len(indexer.stored)}
            = {x \in indexer.chain :
                    /\ x > indexer.first_slot
                    /\ x <= indexer.last_processed_slot}

\* The slots an iteration is about to work on start at the first block
\* after last_processed_slot.
ResumesAfterLast ==
    (indexer.pc = "loop" /\ indexer.slots # <<>>) =>
        Head(indexer.slots) = Lowest(BlocksAfter(indexer.last_processed_slot))

\* last_processed_slot changes only to the slot that was just archived, the
\* first block after its old value.
SetOnlyAfterArchived ==
    indexer'.last_processed_slot # indexer.last_processed_slot =>
        /\ BlocksAfter(indexer.last_processed_slot) # {}
        /\ indexer'.last_processed_slot
                = Lowest(BlocksAfter(indexer.last_processed_slot))
        /\ indexer'.stored
                = Append(indexer.stored, indexer'.last_processed_slot)

\* C39: the archive loop archives the blocks in ascending slot order, moves
\* last_processed_slot to a slot only when that slot's block was fetched,
\* processed and stored, and after a failed iteration resumes at the slot
\* after the last archived one, so that no block is skipped.
C39_NoSlotSkipped ==
    /\ [](NoSlotSkipped /\ ResumesAfterLast)
    /\ [][SetOnlyAfterArchived]_vars

\* An iteration failed at the block of a slot that follows a slot without a
\* block, and the block was archived by a later iteration.
C39_Witness ==
    \E slot \in indexer.failed_at :
        /\ slot \in indexer.chain
        /\ slot - 1 \notin indexer.chain
        /\ slot - 1 > indexer.first_slot
        /\ \E i \in 1..Len(indexer.stored) : indexer.stored[i] = slot
        /\ indexer.last_processed_slot > slot


\* ---------------------------------------------------------------------- C40

\* solve_challenge has returned: every worker has left its loop and was
\* joined, and the solution returned reaches the target.
SolverReturned ==
    /\ solver.pc = "done"
    /\ solver.joined = solver.num_threads
    /\ \A i \in DOMAIN solver.wpc : solver.wpc[i] = "done"
    /\ solver.solution.ok
    /\ solver.solution.difficulty >= solver.difficulty

\* No nonce was tried by two workers.
DisjointNonces ==
    \A i, j \in DOMAIN solver.tried :
        i # j => solver.tried[i] \cap solver.tried[j] = {}

\* C40: once a worker has found a solution that reaches the target, every
\* worker stops and solve_challenge returns, all workers joined, a solution
\* that reaches the target; and the workers try disjoint sets of nonces.
C40_SolverStopsAndReturns ==
    /\ (solver.found ~> SolverReturned)
    /\ [](solver.pc = "done" => SolverReturned)
    /\ []DisjointNonces

\* solve_challenge has returned from two workers of which one found the
\* solution while the other, past several nonces, held an attempt that was
\* too easy.
C40_Witness ==
    /\ SolverReturned
    /\ solver.num_threads = 2
    /\ \E i \in DOMAIN solver.tried :
            /\ Cardinality(solver.tried[i]) >= 2
            /\ \E nonce \in solver.tried[i] :
                    /\ solver.table[nonce].ok
                    /\ solver.table[nonce].difficulty < solver.difficulty

====
